---------------------------- MODULE Spec2Model ----------------------------
(***************************************************************************)
(* A model of ratatui-file-browser: the StatefulList selection/offset      *)
(* cursor (src/stateful_list.rs), the Directory pane                       *)
(* (src/app/components/directory.rs), the Folder and Text preview panes    *)
(* (src/app/components/preview/folder.rs, text.rs), the monolithic         *)
(* application (src/app.rs) and the event loop (src/main.rs).              *)
(*                                                                         *)
(* Option<usize> is modelled as a sequence of length <= 1: None is <<>>    *)
(* and Some(i) is <<i>>.  Every handler is an operator from the state      *)
(* before (and its inputs) to the state after; the actions apply them.     *)
(* The variable hist records the operation an action applied, the state    *)
(* it was applied to and what it returned.                                 *)
(***************************************************************************)
EXTENDS Integers, Sequences, FiniteSets, TLC

VARIABLES
    sl,      \* a StatefulList<T> on its own (SpecList)
    folder,  \* the Folder preview pane (SpecFolder)
    dir,     \* the Directory pane (SpecDir)
    proc_cwd, \* the process's current working directory
    disk,    \* which file system the process runs on
    queue,   \* the events in the tui channel, oldest first (SpecLoop)
    app,     \* the App of src/app.rs (SpecApp)
    text,    \* the Text preview pane (SpecText)
    preview, \* the Preview component's own fields (SpecPanes)
    hist     \* the last operation: [op, arg, pre, ret]

vars == <<sl, folder, dir, proc_cwd, disk, queue, app, text, preview, hist>>

\* what the actions of one specification leave alone
exceptList == <<folder, dir, proc_cwd, disk, queue, app, text, preview>>
exceptFolder == <<sl, dir, proc_cwd, disk, queue, app, text, preview>>
exceptDir == <<sl, folder, queue, app, text, preview>>
exceptLoop == <<sl, folder, app, text, preview>>
exceptApp == <<sl, folder, dir, queue, text, preview>>
exceptText == <<sl, folder, dir, proc_cwd, disk, queue, app, preview>>
exceptPanes == <<sl, queue, app, text>>
exceptPage == <<sl, folder, dir, proc_cwd, disk, queue, app, text, preview>>

--------------------------------------------------------------------------
(* Bounds of the model *)

\* longest list a specification builds
MaxLen == 4
\* largest page distance / viewport height
MaxDist == 3
\* most input events waiting in the channel
MaxQueue == 2
\* the largest total size and page size page_limit is applied to
MaxSize == 10

\* load_file: a text file of this many bytes or more is oversize
OVERSIZE == 50000

--------------------------------------------------------------------------
(* Option<usize> *)

None == <<>>
Some(i) == <<i>>
IsSome(o) == Len(o) = 1
Unwrap(o) == o[1]
UnwrapOr(o, dflt) == IF IsSome(o) THEN o[1] ELSE dflt

--------------------------------------------------------------------------
(* ratatui::widgets::ListState, as StatefulList uses it, and StatefulList *)

\* ListState::select: a selection of None also resets the offset
ListState_select(l, index) ==
    [l EXCEPT !.selected = index,
              !.offset = IF index = None THEN 0 ELSE l.offset]

with_items(items) == [items |-> items, selected |-> None, offset |-> 0]

len(l) == Len(l.items)
lower_bound(l) == 0
upper_bound(l) == IF len(l) > 0 THEN len(l) - 1 ELSE 0

set_selected(l, index) == ListState_select(l, index)

set_offset(l, offset) == [set_selected(l, Some(offset)) EXCEPT !.offset = offset]

at_offset_first(l) == l.offset = lower_bound(l)
offset_first(l) == set_offset(l, lower_bound(l))
at_offset_last(l) == l.offset = upper_bound(l)
offset_last(l) == set_offset(l, upper_bound(l))

advance_offset(l, distance) ==
    LET new == l.offset + distance
    IN  IF new < upper_bound(l) THEN set_offset(l, new) ELSE offset_last(l)

\* the else branch moves the selection only: the offset keeps its value
retreat_offset(l, distance) ==
    IF l.offset < distance
    THEN offset_first(l)
    ELSE set_selected(l, Some(l.offset - distance))

next_offset(l) == advance_offset(l, 1)
previous_offset(l) == retreat_offset(l, 1)

is_first(l) == IsSome(l.selected) /\ Unwrap(l.selected) = lower_bound(l)
is_last(l) == IsSome(l.selected) /\ Unwrap(l.selected) = upper_bound(l)

\* The selection operations return the list after and the bool they return.
first(l) ==
    IF is_first(l)
    THEN [l |-> l, ret |-> FALSE]
    ELSE [l |-> set_selected(l, Some(lower_bound(l))), ret |-> TRUE]

\* last that only steps to the next index
last_StepDown(l) ==
    [l |-> set_selected(l, Some(UnwrapOr(l.selected, lower_bound(l)) + 1)),
     ret |-> TRUE]

last(l) ==
    IF is_last(l)
    THEN [l |-> l, ret |-> FALSE]
    ELSE [l |-> set_selected(l, Some(upper_bound(l))), ret |-> TRUE]

\* advance without its early return at the last index
advance_NoLastCheck(l, distance) ==
    LET selected == UnwrapOr(l.selected, lower_bound(l))
        new == selected + distance
    IN  IF new < upper_bound(l)
        THEN [l |-> set_selected(l, Some(new)), ret |-> TRUE]
        ELSE [l |-> last(l).l, ret |-> TRUE]

\* advance that moves one row less than the distance
advance_OneShort(l, distance) ==
    IF is_last(l)
    THEN [l |-> l, ret |-> FALSE]
    ELSE LET selected == UnwrapOr(l.selected, lower_bound(l))
             new == selected + distance - 1
         IN  IF new < upper_bound(l)
             THEN [l |-> set_selected(l, Some(new)), ret |-> TRUE]
             ELSE [l |-> last(l).l, ret |-> TRUE]

advance(l, distance) ==
    IF is_last(l)
    THEN [l |-> l, ret |-> FALSE]
    ELSE LET selected == UnwrapOr(l.selected, lower_bound(l))
             new == selected + distance
         IN  IF new < upper_bound(l)
             THEN [l |-> set_selected(l, Some(new)), ret |-> TRUE]
             ELSE [l |-> last(l).l, ret |-> TRUE]

retreat(l, distance) ==
    IF is_first(l)
    THEN [l |-> l, ret |-> FALSE]
    ELSE LET selected == UnwrapOr(l.selected, lower_bound(l))
         IN  IF selected < distance
             THEN [l |-> first(l).l, ret |-> TRUE]
             ELSE [l |-> set_selected(l, Some(selected - distance)), ret |-> TRUE]

next(l) == advance(l, 1)
previous(l) == retreat(l, 1)

unselect(l) == set_selected(l, None)

--------------------------------------------------------------------------
(* Helpers of the specifications *)

\* the lists the specifications build hold the numbers 1..n
Iota(n) == [i \in 1..n |-> i]

H(op, arg, pre, ret) == [op |-> op, arg |-> arg, pre |-> pre, ret |-> ret]

--------------------------------------------------------------------------
(* Key events (crossterm::event::KeyEvent) and rectangles (ratatui Rect) *)

Key(code) == [code |-> code, ch |-> 0, modifiers |-> "NONE"]
ModKey(code, modifiers) == [code |-> code, ch |-> 0, modifiers |-> modifiers]
\* Char(c): c is the character's ASCII code
CharKey(c, modifiers) == [code |-> "Char", ch |-> c, modifiers |-> modifiers]

is_up_key(k) ==
    \/ k.code = "Up"
    \/ (k.code = "Char" /\ k.ch = 112 /\ k.modifiers = "CONTROL")

is_down_key(k) ==
    \/ k.code = "Down"
    \/ (k.code = "Char" /\ k.ch = 110 /\ k.modifiers = "CONTROL")

\* crossterm::event::MouseEventKind, as the panes tell them apart
MouseKinds == {"DownLeft", "DownRight", "ScrollUp", "ScrollDown", "Moved"}

Rect_new(x, y, width, height) ==
    [x |-> x, y |-> y, width |-> width, height |-> height]
\* a rectangle at the left edge
Rect(y, width, height) == Rect_new(0, y, width, height)
Rect_default == Rect(0, 0, 0)

\* Rect::inner(Margin {vertical, horizontal}): empty when the margins do not fit
Rect_inner(r, vertical, horizontal) ==
    IF r.width < 2 * horizontal \/ r.height < 2 * vertical
    THEN Rect_default
    ELSE Rect_new(r.x + horizontal, r.y + vertical,
                  r.width - 2 * horizontal, r.height - 2 * vertical)

\* the pane areas a layout hands out: too narrow for the margins, or wide
\* enough, with every height up to MaxDist rows of content plus the borders
Areas ==
    {Rect(1, 3, MaxDist + 2)} \cup {Rect(1, 8, h) : h \in 0..(MaxDist + 2)}

--------------------------------------------------------------------------
(* ratatui::widgets::ScrollbarState, as the panes use it *)

ScrollbarState_default ==
    [content_length |-> 0, position |-> 0, viewport_content_length |-> 0]

Sb_position(sb, position) == [sb EXCEPT !.position = position]
Sb_content_length(sb, n) == [sb EXCEPT !.content_length = n]
Sb_viewport_content_length(sb, n) == [sb EXCEPT !.viewport_content_length = n]
SatSub(a, b) == IF a > b THEN a - b ELSE 0
Min(a, b) == IF a < b THEN a ELSE b
Sb_prev(sb) == [sb EXCEPT !.position = SatSub(sb.position, 1)]
Sb_next(sb) ==
    [sb EXCEPT !.position = Min(sb.position + 1, SatSub(sb.content_length, 1))]
Sb_first(sb) == [sb EXCEPT !.position = 0]
Sb_last(sb) == [sb EXCEPT !.position = SatSub(sb.content_length, 1)]

--------------------------------------------------------------------------
(* The Folder preview pane: src/app/components/preview/folder.rs *)

Folder_default ==
    [area |-> Rect_default, inner_area |-> Rect_default,
     entry |-> None, entry_list |-> with_items(<<>>),
     scrollbar_state |-> ScrollbarState_default]

Folder_page_limit(total_size, page_size) == SatSub(total_size, page_size)

Folder_vertical_page_limit(f) ==
    Folder_page_limit(len(f.entry_list), f.inner_area.height)

Folder_sync_scrollbar_position(f) ==
    [f EXCEPT !.scrollbar_state = Sb_position(@, f.entry_list.offset)]

Folder_set_scrollbar_state(f) ==
    LET frame_length == f.inner_area.height
    IN  IF len(f.entry_list) <= frame_length
        THEN [f EXCEPT !.scrollbar_state =
                           Sb_content_length(Sb_position(@, 0), 0),
                       !.entry_list = first(f.entry_list).l]
        ELSE [f EXCEPT !.scrollbar_state =
                           Sb_viewport_content_length(
                               Sb_content_length(@, len(f.entry_list) - frame_length),
                               frame_length)]

Folder_set_area(f, area) ==
    Folder_set_scrollbar_state(
        [f EXCEPT !.area = area, !.inner_area = Rect_inner(area, 1, 2)])

\* entry: the previewed folder's path (Some) or None
Folder_init(f, entry, items, area) ==
    Folder_set_scrollbar_state(
        [Folder_set_area(f, area) EXCEPT !.entry = entry,
                                         !.entry_list = with_items(items)])

Folder_clear(f) ==
    Folder_set_scrollbar_state(
        [f EXCEPT !.entry = None, !.entry_list = with_items(<<>>)])

Folder_handle_key_event(f, k) ==
    IF is_up_key(k) THEN
        IF ~at_offset_first(f.entry_list)
        THEN [f EXCEPT !.entry_list = previous_offset(@),
                       !.scrollbar_state = Sb_prev(@)]
        ELSE f
    ELSE IF is_down_key(k) THEN
        IF f.entry_list.offset < Folder_vertical_page_limit(f)
        THEN [f EXCEPT !.entry_list = next_offset(@),
                       !.scrollbar_state = Sb_next(@)]
        ELSE [f EXCEPT !.scrollbar_state = Sb_last(@)]
    ELSE IF k.code = "Home" THEN
        IF ~at_offset_first(f.entry_list)
        THEN [f EXCEPT !.entry_list = offset_first(@),
                       !.scrollbar_state = Sb_first(@)]
        ELSE f
    ELSE IF k.code = "End" THEN
        IF len(f.entry_list) > f.inner_area.height
        THEN [f EXCEPT !.entry_list = set_offset(@, Folder_vertical_page_limit(f)),
                       !.scrollbar_state = Sb_last(@)]
        ELSE f
    ELSE IF k.code = "PageUp" THEN
        LET frame_height == f.inner_area.height
        IN  IF f.entry_list.offset > frame_height
            THEN Folder_sync_scrollbar_position(
                     [f EXCEPT !.entry_list = set_offset(@, @.offset - frame_height)])
            ELSE [f EXCEPT !.entry_list = offset_first(@),
                           !.scrollbar_state = Sb_first(@)]
    ELSE IF k.code = "PageDown" THEN
        LET frame_height == f.inner_area.height
            max_offset == Folder_vertical_page_limit(f)
            offset == f.entry_list.offset + frame_height
        IN  IF offset < max_offset
            THEN Folder_sync_scrollbar_position(
                     [f EXCEPT !.entry_list = set_offset(@, offset)])
            ELSE [f EXCEPT !.entry_list = set_offset(@, max_offset),
                           !.scrollbar_state = Sb_last(@)]
    ELSE f

\* what Scrollbar::hit_test answers for a click: "None", or the part of the
\* scrollbar that was hit
ScrollbarPositions == {"Begin", "TrackLow", "Thumb", "TrackHigh", "End"}

\* kind: as for the Directory pane; hit: the answer of the scrollbar
Folder_handle_mouse_event(f, kind, hit) ==
    IF kind = "DownLeft" THEN
        IF hit = "Begin" THEN Folder_handle_key_event(f, Key("Up"))
        ELSE IF hit = "TrackLow" THEN Folder_handle_key_event(f, Key("PageUp"))
        ELSE IF hit = "TrackHigh" THEN Folder_handle_key_event(f, Key("PageDown"))
        ELSE IF hit = "End" THEN Folder_handle_key_event(f, Key("Down"))
        ELSE f
    ELSE IF kind = "ScrollUp" THEN Folder_handle_key_event(f, Key("Up"))
    ELSE IF kind = "ScrollDown" THEN Folder_handle_key_event(f, Key("Down"))
    ELSE f

--------------------------------------------------------------------------
(* The file system the panes browse.  A name is the sequence of its ASCII   *)
(* codes, a path the sequence of its names from the root.                    *)

\* constants::PARENT_DIRECTORY, ".."
PARENT_DIRECTORY == <<46, 46>>
N_a == <<97>>
N_c == <<99>>
N_r == <<114>>
N_x == <<120>>
N_g == <<103>>
N_Apple == <<65, 112>>
N_ab == <<97, 98>>
N_banana == <<98, 97>>
N_k == <<107>>

\* "dirs": /a, /a/c (empty), /a/r (cannot be listed), /x (cannot be entered)
\* and /g, a symbolic link to nothing.  "files": /Apple (a text file), /ab
\* (a binary file) and /banana (an oversize text file).  "empty": a root
\* directory without entries.  "locked": /k, a text file that cannot be read
\* (its content is not UTF-8 throughout).  "walled": /a holding the file
\* /a/ab, under a root directory that cannot be listed.
FsKinds == {"dirs", "files", "empty", "locked"}

FsDirs(fs) ==
    IF fs = "dirs"
    THEN {<<>>, <<N_a>>, <<N_a, N_c>>, <<N_a, N_r>>, <<N_x>>}
    ELSE IF fs = "walled" THEN {<<>>, <<N_a>>}
    ELSE {<<>>}
FsFiles(fs) ==
    IF fs = "files" THEN {<<N_Apple>>, <<N_ab>>, <<N_banana>>}
    ELSE IF fs = "locked" THEN {<<N_k>>}
    ELSE IF fs = "walled" THEN {<<N_a, N_ab>>}
    ELSE {}
FsLinks(fs) == IF fs = "dirs" THEN {<<N_g>>} ELSE {}
FsNoEnter(fs) == IF fs = "dirs" THEN {<<N_x>>} ELSE {}
FsNoList(fs) ==
    IF fs = "dirs" THEN {<<N_a, N_r>>}
    ELSE IF fs = "walled" THEN {<<>>}
    ELSE {}

\* the directories main() can start in (options.init_path)
StartDirs(fs) ==
    IF fs = "dirs" THEN {<<>>, <<N_a, N_r>>}
    ELSE IF fs = "walled" THEN {<<N_a>>}
    ELSE {<<>>}

Front(q) == SubSeq(q, 1, Len(q) - 1)
Last(q) == q[Len(q)]

\* the directory a path names: a trailing ".." names the parent
Normalize(path) ==
    IF Len(path) >= 2 /\ Last(path) = PARENT_DIRECTORY
    THEN Front(Front(path))
    ELSE path

is_dir(fs, path) == Normalize(path) \in FsDirs(fs)

\* byte-wise order of two names (Ord for OsStr)
RECURSIVE NameLess(_, _)
NameLess(a, b) ==
    IF Len(b) = 0 THEN FALSE
    ELSE IF Len(a) = 0 THEN TRUE
    ELSE IF a[1] # b[1] THEN a[1] < b[1]
    ELSE NameLess(Tail(a), Tail(b))

\* the comparison read_directory sorts by: directories first, then by name
EntryLess(fs, lhs, rhs) ==
    IF is_dir(fs, lhs) /\ ~is_dir(fs, rhs) THEN TRUE
    ELSE IF ~is_dir(fs, lhs) /\ is_dir(fs, rhs) THEN FALSE
    ELSE NameLess(Last(lhs), Last(rhs))

RECURSIVE SortEntries(_, _)
SortEntries(fs, paths) ==
    IF paths = {} THEN <<>>
    ELSE LET least == CHOOSE p \in paths :
                          \A q \in paths \ {p} : EntryLess(fs, p, q)
         IN  <<least>> \o SortEntries(fs, paths \ {least})

\* helpers::read_directory: Ok(sorted entries), or Err for an unreadable one
read_directory(fs, path) ==
    IF path \in FsNoList(fs)
    THEN [ok |-> FALSE, entries |-> <<>>]
    ELSE [ok |-> TRUE,
          entries |-> SortEntries(fs,
              {q \in FsDirs(fs) \cup FsFiles(fs) \cup FsLinks(fs) :
                   Len(q) = Len(path) + 1 /\ Front(q) = path})]

\* std::env::set_current_dir
set_current_dir(fs, path) ==
    IF Normalize(path) \in FsNoEnter(fs)
    THEN [ok |-> FALSE, cwd |-> <<>>]
    ELSE [ok |-> TRUE, cwd |-> Normalize(path)]

to_ascii_lowercase(c) == IF 65 <= c /\ c <= 90 THEN c + 32 ELSE c

--------------------------------------------------------------------------
(* util.rs: the character search *)

\* the closure select_by_char passes: the first character of the file name,
\* None for a path that ends in ".." (Path::file_name is None there)
match_char(path) ==
    IF Len(path) = 0 \/ Last(path) = PARENT_DIRECTORY
    THEN None
    ELSE Some(Last(path)[1])

\* list[from..] panics when from > len
find_match_by_char_from(list, ch, from) ==
    IF from > Len(list)
    THEN [panic |-> TRUE, idx |-> None]
    ELSE LET hits == {i \in from..(Len(list) - 1) :
                         /\ IsSome(match_char(list[i + 1]))
                         /\ to_ascii_lowercase(Unwrap(match_char(list[i + 1])))
                                = to_ascii_lowercase(ch)}
         IN  [panic |-> FALSE,
              idx |-> IF hits = {} THEN None
                      ELSE Some(CHOOSE i \in hits : \A j \in hits : i <= j)]

find_match_by_char(list, ch, selected) ==
    LET after == find_match_by_char_from(list, ch, selected + 1)
    IN  IF after.panic \/ IsSome(after.idx)
        THEN after
        ELSE find_match_by_char_from(list, ch, 0)

--------------------------------------------------------------------------
(* The Directory pane: src/app/components/directory.rs.                     *)
(* A handler takes and returns a context [d, cwd, sig, out]: the pane, the  *)
(* process's working directory, the events sent on event_tx, and how the    *)
(* handler ended: "ok", "err" (it returned Err) or "panic".                 *)

Directory_default ==
    [items |-> with_items(<<>>), has_focus |-> FALSE, area |-> Rect_default]

Ctx(d, cwd) == [d |-> d, cwd |-> cwd, sig |-> <<>>, out |-> "ok"]
Send(c, event) == [c EXCEPT !.sig = Append(@, event)]
SetOut(c, out) == [c EXCEPT !.out = out]

Directory_set_area(d, area) == [d EXCEPT !.area = area]
\* a mutation of Directory_set_focus: taking the focus also drops the selection
Directory_set_focus_Unselect(d, focus) ==
    [d EXCEPT !.has_focus = focus, !.items = unselect(@)]

Directory_set_focus(d, focus) == [d EXCEPT !.has_focus = focus]

Directory_set_items(d, items) ==
    [d EXCEPT !.items = first(with_items(items)).l]

Directory_is_selected(d, index) == d.items.selected = Some(index)

\* u16 row and area.y: the callers pass a row of the pane's area
Directory_index_from_row(d, row) ==
    LET index == (row - d.area.y) + d.items.offset
    IN  IF index > lower_bound(d.items) /\ index <= len(d.items)
        THEN Some(index - 1)
        ELSE None

\* set_selected that leaves the selection alone
Directory_set_selected_Ignore(d, selected) == d

Directory_set_selected(d, selected) ==
    IF Some(selected) = d.items.selected
    THEN d
    ELSE [d EXCEPT !.items = set_selected(@, Some(selected))]

\* indexes items[0] before it looks at the length
Directory_has_parent_directory(d) ==
    IF len(d.items) = 0
    THEN [panic |-> TRUE, ret |-> FALSE]
    ELSE [panic |-> FALSE, ret |-> Last(d.items.items[1]) = PARENT_DIRECTORY]

\* self.items[selected] panics for a selected index outside the list
Directory_selected_item(d) ==
    IF ~IsSome(d.items.selected)
    THEN [panic |-> FALSE, item |-> None]
    ELSE IF Unwrap(d.items.selected) >= len(d.items)
    THEN [panic |-> TRUE, item |-> None]
    ELSE [panic |-> FALSE, item |-> Some(d.items.items[Unwrap(d.items.selected) + 1])]

\* ret: the bool of Ok(bool)
Directory_cd(c, fs) ==
    LET sel == Directory_selected_item(c.d)
    IN  IF sel.panic THEN [c |-> SetOut(c, "panic"), ret |-> FALSE]
        ELSE IF IsSome(sel.item) /\ is_dir(fs, Unwrap(sel.item))
        THEN LET r == set_current_dir(fs, Unwrap(sel.item))
             IN  IF r.ok
                 THEN [c |-> [c EXCEPT !.cwd = r.cwd], ret |-> TRUE]
                 ELSE [c |-> SetOut(c, "err"), ret |-> FALSE]
        ELSE [c |-> c, ret |-> FALSE]

Directory_load_cwd(c, fs) ==
    LET cwd == c.cwd
        entries == read_directory(fs, cwd)
        result == (IF Len(cwd) > 0 THEN <<Append(cwd, PARENT_DIRECTORY)>> ELSE <<>>)
                      \o entries.entries
    IN  IF ~entries.ok
        THEN SetOut(c, "err")
        ELSE Send([c EXCEPT !.d = Directory_set_items(@, result)],
                  "DirectoryChanged")

\* StatefulList::index_of: the index of the first item equal to `item`
index_of(l, item) ==
    LET hits == {i \in 0..(len(l) - 1) : l.items[i + 1] = item}
    IN  IF hits = {} THEN None
        ELSE Some(CHOOSE i \in hits : \A j \in hits : i <= j)

Directory_select_by_char(d, ch) ==
    LET selected == UnwrapOr(d.items.selected, 0)
        index == find_match_by_char(d.items.items, ch, selected)
    IN  IF index.panic THEN [panic |-> TRUE, d |-> d]
        ELSE IF IsSome(index.idx)
        THEN [panic |-> FALSE, d |-> Directory_set_selected(d, Unwrap(index.idx))]
        ELSE [panic |-> FALSE, d |-> d]

\* a mutation of Directory_key_tail: SelectionChanged is sent before the new
\* directory is loaded and the selection restored
Directory_key_tail_SignalFirst(c, fs, selection_changed, directory_changed, current) ==
    LET Restore(c1) ==
            IF directory_changed /\ c1.out = "ok"
               /\ IsSome(index_of(c1.d.items, current))
            THEN [c1 EXCEPT !.d = Directory_set_selected(
                                      @, Unwrap(index_of(c1.d.items, current)))]
            ELSE c1
        Reload(c0) ==
            Restore(IF directory_changed THEN Directory_load_cwd(c0, fs) ELSE c0)
    IN  IF c.out # "ok" THEN c
        ELSE Reload(IF selection_changed THEN Send(c, "SelectionChanged") ELSE c)

\* the end of handle_key_event: reload after a directory change, restore the
\* selection to the directory that was open, send SelectionChanged
Directory_key_tail(c, fs, selection_changed, directory_changed, current) ==
    LET Signal(c2) ==
            IF c2.out # "ok" THEN c2
            ELSE IF selection_changed THEN Send(c2, "SelectionChanged")
            ELSE c2
        Restore(c1) ==
            Signal(IF directory_changed /\ c1.out = "ok"
                      /\ IsSome(index_of(c1.d.items, current))
                   THEN [c1 EXCEPT !.d = Directory_set_selected(
                                             @, Unwrap(index_of(c1.d.items, current)))]
                   ELSE c1)
    IN  IF c.out # "ok" THEN c
        ELSE Restore(IF directory_changed THEN Directory_load_cwd(c, fs) ELSE c)

Directory_handle_key_event(c0, k, fs) ==
    LET nothing == ~IsSome(c0.d.items.selected)
        c == IF nothing
             THEN [c0 EXCEPT !.d.items = set_selected(@, Some(0))]
             ELSE c0
        current == c.cwd
        l == c.d.items
        WithList(r) == [c EXCEPT !.d.items = r.l]
        Enter(cx) ==
            LET r == Directory_cd(cx, fs)
            IN  Directory_key_tail(r.c, fs, r.ret, r.ret, current)
    IN  IF nothing /\ is_down_key(k) THEN c
        ELSE IF is_up_key(k) THEN
            Directory_key_tail(WithList(previous(l)), fs, previous(l).ret, FALSE, current)
        ELSE IF is_down_key(k) THEN
            Directory_key_tail(WithList(next(l)), fs, next(l).ret, FALSE, current)
        ELSE IF k.code = "Home" THEN
            Directory_key_tail(WithList(first(l)), fs, first(l).ret, FALSE, current)
        ELSE IF k.code = "End" THEN
            Directory_key_tail(WithList(last(l)), fs, last(l).ret, FALSE, current)
        ELSE IF k.code = "PageUp" THEN
            LET r == retreat(l, c.d.area.height)
            IN  Directory_key_tail(WithList(r), fs, r.ret, FALSE, current)
        ELSE IF k.code = "PageDown" THEN
            LET r == advance(l, c.d.area.height)
            IN  Directory_key_tail(WithList(r), fs, r.ret, FALSE, current)
        ELSE IF k.code = "Enter" THEN Enter(c)
        ELSE IF k.code = "Backspace" THEN
            LET hp == Directory_has_parent_directory(c.d)
            IN  IF hp.panic THEN SetOut(c, "panic")
                ELSE IF hp.ret
                THEN Enter([c EXCEPT !.d = Directory_set_selected(@, 0)])
                ELSE c
        ELSE IF k.code = "Char" THEN
            LET r == Directory_select_by_char(c.d, k.ch)
            IN  IF r.panic THEN SetOut(c, "panic")
                ELSE Directory_key_tail([c EXCEPT !.d = r.d], fs, TRUE, FALSE, current)
        ELSE c

\* a handler that ignores the mouse
Directory_handle_mouse_event_Ignore(c, kind, row, fs) == c

\* kind: "DownLeft", "DownRight", "ScrollUp", "ScrollDown", "Moved"
Directory_handle_mouse_event(c, kind, row, fs) ==
    LET index == Directory_index_from_row(c.d, row)
        click == kind = "DownLeft" /\ IsSome(index)
        \* a click on the selected item is Enter, the wheel is Up or Down
        as_key == IF kind = "DownLeft"
                  THEN click /\ Directory_is_selected(c.d, Unwrap(index))
                  ELSE kind \in {"ScrollUp", "ScrollDown"}
        key == IF kind = "DownLeft" THEN Key("Enter")
               ELSE IF kind = "ScrollUp" THEN Key("Up")
               ELSE Key("Down")
    IN  IF as_key THEN Directory_handle_key_event(c, key, fs)
        ELSE IF click
        THEN Send([c EXCEPT !.d = Directory_set_selected(@, Unwrap(index))],
                  "SelectionChanged")
        ELSE c

--------------------------------------------------------------------------
(* The application of src/app.rs.  A handler takes and returns a context    *)
(* [a, cwd, out]: the App, the process's working directory and how the      *)
(* handler ended, "ok" or "panic".  A line of file_text is modelled by its  *)
(* length, an entry of file_folder_list by <<icon, name>>.                  *)

is_file(fs, path) == path \in FsFiles(fs)

\* Path::metadata follows symbolic links: Err for a link to nothing
metadata_ok(fs, path) == is_dir(fs, path) \/ is_file(fs, path)

\* probably_binary::entry_type
entry_type(fs, path) ==
    IF is_dir(fs, path) THEN "Directory"
    ELSE IF path \in {<<N_Apple>>, <<N_banana>>, <<N_k>>} THEN "Text"
    ELSE IF is_file(fs, path) THEN "Binary"
    ELSE "Err"

\* the lines of a text file, each by its length
read_file(fs, path) == IF path = <<N_Apple>> THEN <<1, 3, 2>> ELSE <<>>

\* whether read_file returns Ok: fs::read_to_string fails on /k
read_file_ok(fs, path) == path # <<N_k>>

file_size(fs, path) ==
    IF path = <<N_Apple>> THEN 10
    ELSE IF path = <<N_banana>> THEN OVERSIZE
    ELSE 0

path_icon(fs, entry) ==
    IF is_dir(fs, entry) THEN "DIRECTORY_ICON"
    ELSE IF is_file(fs, entry) THEN "DOCUMENT_ICON"
    ELSE "UNKNOWN_ICON"

entry_name(entry) == Last(entry)

RECURSIVE widest_line_length(_)
widest_line_length(lines) ==
    IF lines = <<>> THEN 0
    ELSE LET acc == widest_line_length(Front(lines))
         IN  IF acc < Last(lines) THEN Last(lines) ELSE acc

\* a mutation of page_limit: the subtraction without its guard
page_limit_NoGuard(total_size, page_size) == total_size - page_size

page_limit(total_size, page_size) ==
    IF total_size > page_size THEN total_size - page_size ELSE 0

\* the terminal sizes <<width, height>>; Layout gives the file frame 60% of
\* the width and all rows but the first
Sizes == {<<10, 5>>, <<10, 7>>}

calculate_frames_file(size) ==
    Rect(1, size[1] - (size[1] * 40) \div 100, size[2] - 1)

ScrollbarState_new(content_length) ==
    Sb_content_length(ScrollbarState_default, content_length)

App_default ==
    [should_quit |-> FALSE,
     fs_error |-> None,
     text_frame |-> Rect_default,
     widest_line_len |-> 0,
     directory_list |-> with_items(<<>>),
     cwd |-> None,
     focused_frame |-> "Directory",
     folder_item |-> None,
     file_folder_list |-> with_items(<<>>),
     folder_scrollbar_state |-> ScrollbarState_default,
     file_text |-> <<>>,
     file_horizontal_scrollbar_state |-> ScrollbarState_default,
     file_vertical_scrollbar_state |-> ScrollbarState_default,
     file_horizontal_offset |-> 0,
     file_vertical_offset |-> 0]

ACtx(a, cwd) == [a |-> a, cwd |-> cwd, out |-> "ok"]

App_folder_vertical_page_limit(a) ==
    page_limit(len(a.file_folder_list), a.text_frame.height)

App_sync_scrollbar_position(a) ==
    [a EXCEPT !.folder_scrollbar_state = Sb_position(@, a.file_folder_list.offset)]

App_can_scroll_horizontally(a) == a.widest_line_len > a.text_frame.width
App_can_scroll_vertically(a) == Len(a.file_text) > a.text_frame.height
App_file_vertical_page_limit(a) == page_limit(Len(a.file_text), a.text_frame.height)
App_file_horizontal_page_limit(a) == page_limit(a.widest_line_len, a.text_frame.width)

\* self.directory_list[selected] panics for an index outside the list
App_selected_item(a) ==
    IF ~IsSome(a.directory_list.selected)
    THEN [panic |-> FALSE, item |-> None]
    ELSE IF Unwrap(a.directory_list.selected) >= len(a.directory_list)
    THEN [panic |-> TRUE, item |-> None]
    ELSE [panic |-> FALSE,
          item |-> Some(a.directory_list.items[Unwrap(a.directory_list.selected) + 1])]

App_set_selected(a, selected) ==
    IF Some(selected) = a.directory_list.selected
    THEN a
    ELSE [a EXCEPT !.directory_list = set_selected(@, Some(selected))]

App_find_by_char(a, ch, from) ==
    LET hits == {i \in 0..(len(a.directory_list) - 1) :
                     /\ IsSome(match_char(a.directory_list.items[i + 1]))
                     /\ i >= from
                     /\ to_ascii_lowercase(Unwrap(match_char(a.directory_list.items[i + 1])))
                            = to_ascii_lowercase(ch)}
    IN  IF hits = {} THEN None
        ELSE Some(CHOOSE i \in hits : \A j \in hits : i <= j)

App_select_by_char(a, ch) ==
    LET selected == UnwrapOr(a.directory_list.selected, lower_bound(a.directory_list))
    IN  IF IsSome(App_find_by_char(a, ch, selected + 1))
        THEN App_set_selected(a, Unwrap(App_find_by_char(a, ch, selected + 1)))
        ELSE IF IsSome(App_find_by_char(a, ch, 0))
        THEN App_set_selected(a, Unwrap(App_find_by_char(a, ch, 0)))
        ELSE a

App_set_scrollbar_state(a) ==
    LET height == a.text_frame.height
        length == upper_bound(a.file_folder_list) + 1
    IN  IF length > height
        THEN [a EXCEPT !.folder_scrollbar_state =
                           Sb_position(ScrollbarState_new(length - height), 0)]
        ELSE [a EXCEPT !.folder_scrollbar_state = ScrollbarState_default]

App_set_horizontal_scrollbar_state(a) ==
    LET line_width == a.widest_line_len
        frame_width == a.text_frame.width
    IN  IF line_width > frame_width
        THEN [a EXCEPT !.file_horizontal_scrollbar_state =
                           Sb_position(ScrollbarState_new(line_width - frame_width), 0)]
        ELSE [a EXCEPT !.file_horizontal_scrollbar_state = ScrollbarState_default]

App_set_vertical_scrollbar_state(a) ==
    LET height == a.text_frame.height
        length == Len(a.file_text)
    IN  IF length > height
        THEN [a EXCEPT !.file_vertical_scrollbar_state =
                           Sb_position(ScrollbarState_new(length - height), 0)]
        ELSE [a EXCEPT !.file_vertical_scrollbar_state = ScrollbarState_default]

\* returns the App and the FolderItem the caller stores
App_load_folder(a, fs, entry) ==
    LET items == read_directory(fs, Normalize(entry))
        strings == [i \in 1..Len(items.entries) |->
                        <<path_icon(fs, items.entries[i]), entry_name(items.entries[i])>>]
    IN  IF items.ok
        THEN [a |-> App_set_scrollbar_state(
                        [a EXCEPT !.file_folder_list = with_items(strings)]),
              item |-> "Folder"]
        ELSE [a |-> a, item |-> "Error"]

\* a mutation of App_load_file: a text file is read whatever its size
App_load_file_NoOversize(a, fs, file_type, entry) ==
    IF file_type = "Text"
    THEN IF ~read_file_ok(fs, entry)
         THEN [a |-> a, item |-> "Error"]
         ELSE [a |-> [a EXCEPT !.file_text = read_file(fs, entry)], item |-> "TextFile"]
    ELSE [a |-> a, item |-> "BinaryFile"]

App_load_file(a, fs, file_type, entry) ==
    IF file_type = "Text"
    THEN IF file_size(fs, entry) >= OVERSIZE
         THEN [a |-> a, item |-> "OversizeTextFile"]
         ELSE IF ~read_file_ok(fs, entry)
         THEN [a |-> a, item |-> "Error"]
         ELSE [a |-> App_set_vertical_scrollbar_state(
                         [App_set_horizontal_scrollbar_state(
                              [a EXCEPT !.widest_line_len =
                                            widest_line_length(read_file(fs, entry)),
                                        !.file_text = read_file(fs, entry),
                                        !.file_horizontal_offset = 0])
                          EXCEPT !.file_vertical_offset = 0]),
               item |-> "TextFile"]
    ELSE [a |-> a, item |-> "BinaryFile"]

App_load_entry(a, fs, entry) ==
    IF entry_type(fs, entry) = "Directory" THEN App_load_folder(a, fs, entry)
    ELSE IF entry_type(fs, entry) = "Err" THEN [a |-> a, item |-> "Error"]
    ELSE App_load_file(a, fs, entry_type(fs, entry), entry)

App_load_selected_file(c, fs) ==
    IF c.out # "ok" THEN c
    ELSE IF App_selected_item(c.a).panic THEN [c EXCEPT !.out = "panic"]
    ELSE IF IsSome(App_selected_item(c.a).item)
    THEN [c EXCEPT !.a = [App_load_entry(c.a, fs, Unwrap(App_selected_item(c.a).item)).a
                              EXCEPT !.folder_item =
                                  Some(App_load_entry(c.a, fs,
                                           Unwrap(App_selected_item(c.a).item)).item)]]
    ELSE [c EXCEPT !.a.folder_item = None]

\* read_cwd and load_cwd
App_load_cwd(c, fs) ==
    LET entries == read_directory(fs, c.cwd)
        items == (IF Len(c.cwd) > 0 THEN <<Append(c.cwd, PARENT_DIRECTORY)>> ELSE <<>>)
                     \o entries.entries
    IN  IF entries.ok
        THEN [c EXCEPT !.a.directory_list = first(with_items(items)).l,
                       !.a.cwd = Some(c.cwd)]
        ELSE [c EXCEPT !.a.fs_error = Some("Other")]

\* ret: the bool cd returns
App_cd(c, fs) ==
    LET sel == App_selected_item(c.a)
    IN  IF sel.panic THEN [c |-> [c EXCEPT !.out = "panic"], ret |-> FALSE]
        ELSE IF IsSome(sel.item) /\ is_dir(fs, Unwrap(sel.item))
        THEN IF set_current_dir(fs, Unwrap(sel.item)).ok
             THEN [c |-> App_load_cwd(
                             [c EXCEPT !.cwd = set_current_dir(fs, Unwrap(sel.item)).cwd],
                             fs),
                   ret |-> TRUE]
             ELSE [c |-> [c EXCEPT !.a.fs_error = Some("Other")], ret |-> TRUE]
        ELSE [c |-> c, ret |-> FALSE]

App_handle_folder_key_event(a, k) ==
    IF is_up_key(k) THEN
        IF ~at_offset_first(a.file_folder_list)
        THEN App_sync_scrollbar_position(
                 [a EXCEPT !.file_folder_list = previous_offset(@)])
        ELSE a
    ELSE IF is_down_key(k) THEN
        IF a.file_folder_list.offset < App_folder_vertical_page_limit(a)
        THEN App_sync_scrollbar_position(
                 [a EXCEPT !.file_folder_list = next_offset(@)])
        ELSE [a EXCEPT !.folder_scrollbar_state = Sb_last(@)]
    ELSE IF k.code = "Home" THEN
        IF ~at_offset_first(a.file_folder_list)
        THEN [a EXCEPT !.file_folder_list = offset_first(@),
                       !.folder_scrollbar_state = Sb_first(@)]
        ELSE a
    ELSE IF k.code = "End" THEN
        IF len(a.file_folder_list) > a.text_frame.height
        THEN [a EXCEPT !.file_folder_list =
                           set_offset(@, App_folder_vertical_page_limit(a)),
                       !.folder_scrollbar_state = Sb_last(@)]
        ELSE a
    ELSE IF k.code = "PageUp" THEN
        IF a.file_folder_list.offset > a.text_frame.height
        THEN App_sync_scrollbar_position(
                 [a EXCEPT !.file_folder_list =
                               set_offset(@, @.offset - a.text_frame.height)])
        ELSE [a EXCEPT !.file_folder_list = offset_first(@),
                       !.folder_scrollbar_state = Sb_first(@)]
    ELSE IF k.code = "PageDown" THEN
        IF a.file_folder_list.offset + a.text_frame.height
               < App_folder_vertical_page_limit(a)
        THEN App_sync_scrollbar_position(
                 [a EXCEPT !.file_folder_list =
                               set_offset(@, @.offset + a.text_frame.height)])
        ELSE [a EXCEPT !.file_folder_list =
                           set_offset(@, App_folder_vertical_page_limit(a)),
                       !.folder_scrollbar_state = Sb_last(@)]
    ELSE a

App_handle_text_key_event(a, k) ==
    IF is_up_key(k) THEN
        IF App_can_scroll_vertically(a) /\ a.file_vertical_offset > 0
        THEN [a EXCEPT !.file_vertical_offset = @ - 1,
                       !.file_vertical_scrollbar_state = Sb_prev(@)]
        ELSE a
    ELSE IF is_down_key(k) THEN
        IF App_can_scroll_vertically(a)
               /\ a.file_vertical_offset < App_file_vertical_page_limit(a)
        THEN [a EXCEPT !.file_vertical_offset = @ + 1,
                       !.file_vertical_scrollbar_state = Sb_next(@)]
        ELSE a
    ELSE IF k.code = "Home" THEN
        IF App_can_scroll_vertically(a) /\ k.modifiers = "CONTROL"
        THEN [a EXCEPT !.file_vertical_offset = 0,
                       !.file_vertical_scrollbar_state = Sb_first(@)]
        ELSE IF App_can_scroll_horizontally(a)
        THEN [a EXCEPT !.file_horizontal_offset = 0,
                       !.file_horizontal_scrollbar_state = Sb_first(@)]
        ELSE a
    ELSE IF k.code = "End" THEN
        IF App_can_scroll_vertically(a) /\ k.modifiers = "CONTROL"
        THEN IF Len(a.file_text) > a.text_frame.height
             THEN [a EXCEPT !.file_vertical_offset = App_file_vertical_page_limit(a),
                            !.file_vertical_scrollbar_state = Sb_last(@)]
             ELSE a
        ELSE IF App_can_scroll_horizontally(a)
        THEN [a EXCEPT !.file_horizontal_offset = App_file_horizontal_page_limit(a),
                       !.file_horizontal_scrollbar_state = Sb_last(@)]
        ELSE a
    ELSE IF k.code = "PageUp" THEN
        IF App_can_scroll_vertically(a)
        THEN IF a.file_vertical_offset > a.text_frame.height
             THEN [a EXCEPT !.file_vertical_offset = @ - a.text_frame.height,
                            !.file_vertical_scrollbar_state =
                                Sb_position(@, a.file_vertical_offset - a.text_frame.height)]
             ELSE [a EXCEPT !.file_vertical_offset = 0,
                            !.file_vertical_scrollbar_state = Sb_first(@)]
        ELSE a
    ELSE IF k.code = "PageDown" THEN
        IF App_can_scroll_vertically(a)
        THEN IF a.file_vertical_offset + a.text_frame.height
                    < App_file_vertical_page_limit(a)
             THEN [a EXCEPT !.file_vertical_offset = @ + a.text_frame.height,
                            !.file_vertical_scrollbar_state =
                                Sb_position(@, a.file_vertical_offset + a.text_frame.height)]
             ELSE [a EXCEPT !.file_vertical_offset = App_file_vertical_page_limit(a),
                            !.file_vertical_scrollbar_state = Sb_last(@)]
        ELSE a
    ELSE IF k.code = "Left" THEN
        IF App_can_scroll_horizontally(a) /\ a.file_horizontal_offset > 0
        THEN [a EXCEPT !.file_horizontal_offset = @ - 1,
                       !.file_horizontal_scrollbar_state = Sb_prev(@)]
        ELSE a
    ELSE IF k.code = "Right" THEN
        IF App_can_scroll_horizontally(a)
               /\ a.file_horizontal_offset < App_file_horizontal_page_limit(a)
        THEN [a EXCEPT !.file_horizontal_offset = @ + 1,
                       !.file_horizontal_scrollbar_state = Sb_next(@)]
        ELSE a
    ELSE a

\* a mutation of App_handle_file_key_event: every variant but Folder scrolls
\* the text last read
App_handle_file_key_event_AlwaysText(a, k) ==
    IF a.folder_item = Some("Folder") THEN App_handle_folder_key_event(a, k)
    ELSE App_handle_text_key_event(a, k)

App_handle_file_key_event(a, k) ==
    IF a.folder_item = Some("Folder") THEN App_handle_folder_key_event(a, k)
    ELSE IF a.folder_item = Some("TextFile") THEN App_handle_text_key_event(a, k)
    ELSE a

\* the end of handle_directory_key_event
App_directory_key_tail(c, fs, selection_changed) ==
    IF selection_changed THEN App_load_selected_file(c, fs) ELSE c

\* handle_directory_key_event once something is selected
App_directory_key(c, k, fs) ==
    IF is_up_key(k) THEN
        IF ~is_first(c.a.directory_list)
        THEN App_directory_key_tail(
                 [c EXCEPT !.a.directory_list = previous(@).l], fs, TRUE)
        ELSE c
    ELSE IF is_down_key(k) THEN
        IF ~is_last(c.a.directory_list)
        THEN App_directory_key_tail(
                 [c EXCEPT !.a.directory_list = next(@).l], fs, TRUE)
        ELSE c
    ELSE IF k.code = "Home" THEN
        IF ~is_first(c.a.directory_list)
        THEN App_directory_key_tail(
                 [c EXCEPT !.a.directory_list = first(@).l], fs, TRUE)
        ELSE c
    ELSE IF k.code = "End" THEN
        IF ~is_last(c.a.directory_list)
        THEN App_directory_key_tail(
                 [c EXCEPT !.a.directory_list = last(@).l], fs, TRUE)
        ELSE c
    ELSE IF k.code = "PageUp" THEN
        IF ~is_first(c.a.directory_list)
        THEN App_directory_key_tail(
                 [c EXCEPT !.a.directory_list = retreat(@, c.a.text_frame.height).l],
                 fs, TRUE)
        ELSE c
    ELSE IF k.code = "PageDown" THEN
        IF ~is_last(c.a.directory_list)
        THEN App_directory_key_tail(
                 [c EXCEPT !.a.directory_list = advance(@, c.a.text_frame.height).l],
                 fs, TRUE)
        ELSE c
    ELSE IF k.code = "Enter" THEN
        App_directory_key_tail(App_cd(c, fs).c, fs,
                               App_cd(c, fs).ret /\ App_cd(c, fs).c.out = "ok")
    ELSE IF k.code = "Char" THEN
        App_directory_key_tail(
            [c EXCEPT !.a = App_select_by_char(@, k.ch)], fs, TRUE)
    ELSE c

App_handle_directory_key_event(c, k, fs) ==
    IF ~IsSome(c.a.directory_list.selected)
    THEN IF App_load_selected_file([c EXCEPT !.a = App_set_selected(@, 0)], fs).out # "ok"
            \/ is_down_key(k)
         THEN App_load_selected_file([c EXCEPT !.a = App_set_selected(@, 0)], fs)
         ELSE App_directory_key(
                  App_load_selected_file([c EXCEPT !.a = App_set_selected(@, 0)], fs),
                  k, fs)
    ELSE App_directory_key(c, k, fs)

\* a mutation of App_quit: quitting also drops the pending error
App_quit_ClearError(a) == [a EXCEPT !.should_quit = TRUE, !.fs_error = None]

App_quit(a) == [a EXCEPT !.should_quit = TRUE]

\* a mutation of App_toggle_focus: focus always goes to the preview
App_toggle_focus_Stuck(a) == [a EXCEPT !.focused_frame = "Files"]

App_toggle_focus(a) ==
    IF a.focused_frame = "Directory"
    THEN [a EXCEPT !.focused_frame = "Files"]
    ELSE [a EXCEPT !.focused_frame = "Directory"]

\* a mutation of App_dismiss_error: the selection survives a Metadata error
App_dismiss_error_KeepSelection(a) == [a EXCEPT !.fs_error = None]

\* a mutation of App_dismiss_error: every error clears the selection
App_dismiss_error_AlwaysUnselect(a) ==
    [a EXCEPT !.directory_list = unselect(@), !.fs_error = None]

\* a mutation of App_dismiss_error: the key that dismisses the error also quits
App_dismiss_error_Quit(a) ==
    IF a.fs_error = Some("Metadata")
    THEN [a EXCEPT !.directory_list = unselect(@), !.fs_error = None,
                   !.should_quit = TRUE]
    ELSE [a EXCEPT !.fs_error = None, !.should_quit = TRUE]

\* handle_key_event with an error pending: clear it, and for a Metadata
\* error clear the selection too
App_dismiss_error(a) ==
    IF a.fs_error = Some("Metadata")
    THEN [a EXCEPT !.directory_list = unselect(@), !.fs_error = None]
    ELSE [a EXCEPT !.fs_error = None]

App_handle_key_event(c, k, fs) ==
    IF k.code = "Char" /\ k.ch = 99 /\ k.modifiers = "CONTROL"
    THEN [c EXCEPT !.a = App_quit(@)]
    ELSE IF IsSome(c.a.fs_error) THEN [c EXCEPT !.a = App_dismiss_error(@)]
    ELSE IF k.code = "Esc" THEN [c EXCEPT !.a = App_quit(@)]
    ELSE IF k.code = "Tab" THEN [c EXCEPT !.a = App_toggle_focus(@)]
    ELSE IF c.a.focused_frame = "Directory"
    THEN App_handle_directory_key_event(c, k, fs)
    ELSE [c EXCEPT !.a = App_handle_file_key_event(@, k)]

App_handle_init_event(c, fs) ==
    App_load_selected_file(App_load_cwd(c, fs), fs)

App_handle_resize_event(a, size) ==
    App_set_vertical_scrollbar_state(
        App_set_horizontal_scrollbar_state(
            App_set_scrollbar_state(
                [a EXCEPT !.text_frame =
                              Rect_inner(calculate_frames_file(size), 1, 2)])))

\* what rendering a List of `height` rows does to its state: the offset
\* moves so that the selected row (the offset row when nothing is selected,
\* the last row when the selected index is past the end) is on screen;
\* nothing when there is no row or no item to draw
List_render(l, height) ==
    LET offset == Min(l.offset, SatSub(len(l), 1))
        index == Min(UnwrapOr(l.selected, offset), SatSub(len(l), 1))
    IN  IF height = 0 \/ len(l) = 0 THEN l
        ELSE IF index >= offset + height THEN [l EXCEPT !.offset = index - height + 1]
        ELSE IF index < offset THEN [l EXCEPT !.offset = index]
        ELSE [l EXCEPT !.offset = offset]

\* Directory::render: the new area, the item count of the title (which asks
\* has_parent_directory), then the List drawn inside the block's borders
Directory_render(c, area) ==
    LET d == Directory_set_area(c.d, area)
    IN  IF Directory_has_parent_directory(d).panic
        THEN [c EXCEPT !.d = d, !.out = "panic"]
        ELSE [c EXCEPT !.d = [d EXCEPT !.items = List_render(@, SatSub(area.height, 2))]]

\* a mutation of App_render_directory: drawing a list without a selection
\* selects its last item
App_render_directory_Reselect(c, size) ==
    IF len(c.a.directory_list) = 0
    THEN [c EXCEPT !.out = "panic"]
    ELSE [c EXCEPT !.a.directory_list =
              List_render(IF IsSome(@.selected) THEN @ ELSE last(@).l,
                          SatSub(size[2], 3))]

\* indexes directory_list[0] before it looks at the count
App_render_directory(c, size) ==
    IF len(c.a.directory_list) = 0
    THEN [c EXCEPT !.out = "panic"]
    ELSE [c EXCEPT !.a.directory_list = List_render(@, SatSub(size[2], 3))]

App_render_file(a, fs, entry) ==
    IF metadata_ok(fs, entry)
    THEN IF a.folder_item = Some("Folder")
         THEN [a EXCEPT !.file_folder_list = List_render(@, a.text_frame.height)]
         ELSE a
    ELSE [a EXCEPT !.fs_error = Some("Metadata")]

App_render_selected(c, fs) ==
    IF c.out # "ok" THEN c
    ELSE IF App_selected_item(c.a).panic THEN [c EXCEPT !.out = "panic"]
    ELSE IF IsSome(App_selected_item(c.a).item)
    THEN [c EXCEPT !.a = App_render_file(@, fs, Unwrap(App_selected_item(c.a).item))]
    ELSE c

App_render(c, size, fs) ==
    App_render_selected(
        App_render_directory(
            [c EXCEPT !.a.text_frame = Rect_inner(calculate_frames_file(size), 1, 2)],
            size),
        fs)

--------------------------------------------------------------------------
(* The Text preview pane: src/app/components/preview/text.rs.  A line of    *)
(* file_text is modelled by its length.                                     *)

Text_default ==
    [area |-> Rect_default, inner_area |-> Rect_default,
     entry |-> None, file_text |-> <<>>,
     widest_line_len |-> 0,
     horizontal_scrollbar_state |-> ScrollbarState_default,
     horizontal_offset |-> 0,
     vertical_scrollbar_state |-> ScrollbarState_default,
     vertical_offset |-> 0]

\* PreviewPane::page_limit, the trait's default
PreviewPane_page_limit(total_size, page_size) == SatSub(total_size, page_size)

Text_can_scroll_horizontally(t) == t.widest_line_len > t.inner_area.width
Text_can_scroll_vertically(t) == Len(t.file_text) > t.inner_area.height

Text_vertical_page_limit(t) ==
    PreviewPane_page_limit(Len(t.file_text), t.inner_area.height)
Text_horizontal_page_limit(t) ==
    PreviewPane_page_limit(t.widest_line_len, t.inner_area.width)

Text_set_horizontal_scrollbar_state(t) ==
    LET frame_length == t.inner_area.width
        content_length == IF t.widest_line_len <= frame_length
                          THEN 0
                          ELSE t.widest_line_len - frame_length
    IN  [t EXCEPT !.horizontal_scrollbar_state =
            Sb_viewport_content_length(
                Sb_position(ScrollbarState_new(content_length), 0), frame_length)]

Text_set_vertical_scrollbar_state(t) ==
    LET frame_length == t.inner_area.height
        content_length == IF Len(t.file_text) <= frame_length
                          THEN 0
                          ELSE Len(t.file_text) - frame_length
    IN  [t EXCEPT !.vertical_scrollbar_state =
            Sb_viewport_content_length(
                Sb_position(ScrollbarState_new(content_length), 0), frame_length)]

\* the areas only: the scrollbar states keep what they held
Text_set_area(t, area) ==
    [t EXCEPT !.area = area, !.inner_area = Rect_inner(area, 1, 2)]

\* the offsets keep what they held
Text_init(t, entry, lines, area) ==
    Text_set_vertical_scrollbar_state(
        Text_set_horizontal_scrollbar_state(
            [Text_set_area(t, area) EXCEPT
                 !.entry = entry,
                 !.widest_line_len = widest_line_length(lines),
                 !.file_text = lines]))

\* widest_line_len and the offsets keep what they held
Text_clear(t) ==
    Text_set_vertical_scrollbar_state(
        Text_set_horizontal_scrollbar_state(
            [t EXCEPT !.entry = None, !.file_text = <<>>]))

Text_handle_key_event(t, k) ==
    IF is_up_key(k) THEN
        IF Text_can_scroll_vertically(t) /\ t.vertical_offset > 0
        THEN [t EXCEPT !.vertical_offset = @ - 1,
                       !.vertical_scrollbar_state = Sb_prev(@)]
        ELSE t
    ELSE IF is_down_key(k) THEN
        IF Text_can_scroll_vertically(t)
           /\ t.vertical_offset < Text_vertical_page_limit(t)
        THEN [t EXCEPT !.vertical_offset = @ + 1,
                       !.vertical_scrollbar_state = Sb_next(@)]
        ELSE t
    ELSE IF k.code = "Home" THEN
        IF Text_can_scroll_vertically(t) /\ k.modifiers = "CONTROL"
        THEN [t EXCEPT !.vertical_offset = 0,
                       !.vertical_scrollbar_state = Sb_first(@)]
        ELSE IF Text_can_scroll_horizontally(t) /\ k.modifiers # "CONTROL"
        THEN [t EXCEPT !.horizontal_offset = 0,
                       !.horizontal_scrollbar_state = Sb_first(@)]
        ELSE t
    ELSE IF k.code = "End" THEN
        IF Text_can_scroll_vertically(t) /\ k.modifiers = "CONTROL"
        THEN [t EXCEPT !.vertical_offset = Text_vertical_page_limit(t),
                       !.vertical_scrollbar_state = Sb_last(@)]
        ELSE IF Text_can_scroll_horizontally(t) /\ k.modifiers # "CONTROL"
        THEN [t EXCEPT !.horizontal_offset = Text_horizontal_page_limit(t),
                       !.horizontal_scrollbar_state = Sb_last(@)]
        ELSE t
    ELSE IF k.code = "PageUp" THEN
        IF Text_can_scroll_vertically(t)
        THEN LET frame_height == t.inner_area.height
             IN  IF t.vertical_offset > frame_height
                 THEN [t EXCEPT !.vertical_offset = @ - frame_height,
                                !.vertical_scrollbar_state =
                                    Sb_position(@, t.vertical_offset - frame_height)]
                 ELSE [t EXCEPT !.vertical_offset = 0,
                                !.vertical_scrollbar_state = Sb_first(@)]
        ELSE t
    ELSE IF k.code = "PageDown" THEN
        IF Text_can_scroll_vertically(t)
        THEN LET frame_height == t.inner_area.height
                 limit == Text_vertical_page_limit(t)
             IN  IF t.vertical_offset + frame_height < limit
                 THEN [t EXCEPT !.vertical_offset = @ + frame_height,
                                !.vertical_scrollbar_state =
                                    Sb_position(@, t.vertical_offset + frame_height)]
                 ELSE [t EXCEPT !.vertical_offset = limit,
                                !.vertical_scrollbar_state = Sb_last(@)]
        ELSE t
    ELSE IF k.code = "Left" THEN
        IF Text_can_scroll_horizontally(t) /\ k.modifiers = "CONTROL"
        THEN LET frame_width == t.inner_area.width
             IN  IF t.horizontal_offset > frame_width
                 THEN [t EXCEPT !.horizontal_offset = @ - frame_width,
                                !.horizontal_scrollbar_state =
                                    Sb_position(@, t.horizontal_offset - frame_width)]
                 ELSE [t EXCEPT !.horizontal_offset = 0,
                                !.horizontal_scrollbar_state = Sb_first(@)]
        ELSE IF Text_can_scroll_horizontally(t) /\ k.modifiers # "CONTROL"
                /\ t.horizontal_offset > 0
        THEN [t EXCEPT !.horizontal_offset = @ - 1,
                       !.horizontal_scrollbar_state = Sb_prev(@)]
        ELSE t
    ELSE IF k.code = "Right" THEN
        IF Text_can_scroll_horizontally(t) /\ k.modifiers = "CONTROL"
        THEN LET frame_width == t.inner_area.width
                 limit == Text_horizontal_page_limit(t)
             IN  IF t.horizontal_offset + frame_width < limit
                 THEN [t EXCEPT !.horizontal_offset = @ + frame_width,
                                !.horizontal_scrollbar_state =
                                    Sb_position(@, t.horizontal_offset + frame_width)]
                 ELSE [t EXCEPT !.horizontal_offset = limit,
                                !.horizontal_scrollbar_state = Sb_last(@)]
        ELSE IF Text_can_scroll_horizontally(t) /\ k.modifiers # "CONTROL"
                /\ t.horizontal_offset < Text_horizontal_page_limit(t)
        THEN [t EXCEPT !.horizontal_offset = @ + 1,
                       !.horizontal_scrollbar_state = Sb_next(@)]
        ELSE t
    ELSE t

\* vhit, hhit: the answers of the vertical and the horizontal scrollbar
Text_handle_mouse_event(t, kind, vhit, hhit) ==
    IF kind = "DownLeft" THEN
        LET t1 == IF vhit = "Begin" THEN Text_handle_key_event(t, Key("Up"))
                  ELSE IF vhit = "TrackLow"
                  THEN Text_handle_key_event(t, Key("PageUp"))
                  ELSE IF vhit = "TrackHigh"
                  THEN Text_handle_key_event(t, Key("PageDown"))
                  ELSE IF vhit = "End" THEN Text_handle_key_event(t, Key("Down"))
                  ELSE t
        IN  IF hhit = "Begin" THEN Text_handle_key_event(t1, Key("Left"))
            ELSE IF hhit = "TrackLow"
            THEN Text_handle_key_event(t1, ModKey("Left", "CONTROL"))
            ELSE IF hhit = "TrackHigh"
            THEN Text_handle_key_event(t1, ModKey("Right", "CONTROL"))
            ELSE IF hhit = "End" THEN Text_handle_key_event(t1, Key("Right"))
            ELSE t1
    ELSE IF kind = "ScrollUp" THEN Text_handle_key_event(t, Key("Up"))
    ELSE IF kind = "ScrollDown" THEN Text_handle_key_event(t, Key("Down"))
    ELSE t

\* PreviewPane::render of the Text pane: the Paragraph and the Scrollbar
\* widgets leave the pane's state alone
Text_render(t, area) == Text_set_area(t, area)

--------------------------------------------------------------------------
(* SpecFolder: the Folder pane driven through ListPane's operations *)

\* PreviewPane::render of the Folder pane: the new area, then the List
\* widget drawn in the inner area when a folder is previewed
Folder_render(f, area) ==
    LET f1 == Folder_set_area(f, area)
    IN  IF IsSome(f1.entry)
        THEN [f1 EXCEPT !.entry_list = List_render(@, f1.inner_area.height)]
        ELSE f1

FolderKeys ==
    {Key("Up"), Key("Down"), Key("Home"), Key("End"), Key("PageUp"),
     Key("PageDown"), CharKey(112, "CONTROL"), CharKey(110, "CONTROL"),
     Key("Left")}

--------------------------------------------------------------------------
(* The Preview component's own fields (src/app/components/preview.rs) and   *)
(* the routing of input events to the two panes.                            *)

Preview_default == [has_focus |-> FALSE, area |-> Rect_default]

\* Rect::contains(Position {x, y}), util::is_in_rect
Rect_contains(r, x, y) ==
    /\ x >= r.x
    /\ x < r.x + r.width
    /\ y >= r.y
    /\ y < r.y + r.height

Directory_hit_test(d, x, y) == Rect_contains(d.area, x, y)

Preview_hit_test(p, x, y) == Rect_contains(p.area, x, y)

Preview_set_focus(p, focus) == [p EXCEPT !.has_focus = focus]

Preview_set_area(p, area) == [p EXCEPT !.area = area]

\* page_limit of preview.rs
Preview_page_limit(total_size, page_size) ==
    IF total_size > page_size THEN total_size - page_size ELSE 0

\* a context of both panes: the Directory context, the Preview component p
\* and its Folder pane f
PCtx(d, cwd, p, f) == [d |-> d, cwd |-> cwd, sig |-> <<>>, out |-> "ok", p |-> p, f |-> f]
PDir(pc) == [d |-> pc.d, cwd |-> pc.cwd, sig |-> pc.sig, out |-> pc.out]
PWithDir(pc, c) ==
    [field \in DOMAIN pc |-> IF field \in {"p", "f"} THEN pc[field] ELSE c[field]]

\* focus given to the Directory pane (to_directory) or to the Preview
Panes_set_focus(pc, to_directory) ==
    [pc EXCEPT !.d = Directory_set_focus(@, to_directory),
               !.p = Preview_set_focus(@, ~to_directory)]

\* a mouse event at column x, row y; hit: where on the preview's scrollbar
\* it falls.  A Down click in the pane without focus only gives it focus;
\* every other event goes to the pane with focus.
Panes_handle_mouse_event(pc, kind, x, y, hit, fs) ==
    LET down == kind \in {"DownLeft", "DownRight"}
        in_directory == Directory_hit_test(pc.d, x, y)
        in_preview == ~in_directory /\ Preview_hit_test(pc.p, x, y)
    IN  IF down /\ in_directory /\ ~pc.d.has_focus THEN Panes_set_focus(pc, TRUE)
        ELSE IF down /\ in_preview /\ ~pc.p.has_focus THEN Panes_set_focus(pc, FALSE)
        ELSE IF (IF down THEN in_directory ELSE pc.d.has_focus)
        THEN PWithDir(pc, Directory_handle_mouse_event(PDir(pc), kind, y, fs))
        ELSE IF (IF down THEN in_preview ELSE pc.p.has_focus)
        THEN [pc EXCEPT !.f = Folder_handle_mouse_event(@, kind, hit)]
        ELSE pc

\* Tab toggles the focus; every other key goes to the pane with focus
Panes_handle_key_event(pc, k, fs) ==
    IF k.code = "Tab" THEN Panes_set_focus(pc, ~pc.d.has_focus)
    ELSE IF pc.d.has_focus
    THEN PWithDir(pc, Directory_handle_key_event(PDir(pc), k, fs))
    ELSE [pc EXCEPT !.f = Folder_handle_key_event(@, k)]

\* Init: the working directory is listed and the Directory pane has focus
Panes_handle_init_event(pc, fs) ==
    PWithDir(Panes_set_focus(pc, TRUE), Directory_load_cwd(PDir(pc), fs))

\* SelectionChanged: the preview shows the selected entry, a folder's
\* entries in the Folder pane and nothing there for everything else
Panes_handle_selection_changed(pc, fs) ==
    LET sel == Directory_selected_item(pc.d)
    IN  IF sel.panic THEN [pc EXCEPT !.out = "panic"]
        ELSE IF IsSome(sel.item) /\ is_dir(fs, Unwrap(sel.item))
                /\ read_directory(fs, Normalize(Unwrap(sel.item))).ok
        THEN [pc EXCEPT !.f = Folder_init(@, sel.item,
                                  read_directory(fs, Normalize(Unwrap(sel.item))).entries,
                                  pc.p.area)]
        ELSE [pc EXCEPT !.f = Folder_clear(@)]

\* a render pass: the layout's areas are stored and the Folder pane drawn
Panes_render(pc, areas) ==
    [pc EXCEPT !.d = Directory_set_area(@, areas[1]),
               !.p = Preview_set_area(@, areas[2]),
               !.f = Folder_render(@, areas[2])]


\* the parts of the state a specification does not run
ListIdle == sl = with_items(<<>>)
FolderIdle == folder = Folder_default
DirIdle == dir = Directory_default /\ proc_cwd = <<>> /\ disk = "empty"
QueueIdle == queue = <<>>
AppIdle == app = App_default
TextIdle == text = Text_default
PreviewIdle == preview = Preview_default

FolderInit ==
    /\ folder = Folder_default
    /\ ListIdle
    /\ DirIdle
    /\ QueueIdle
    /\ AppIdle
    /\ TextIdle
    /\ PreviewIdle
    /\ hist = H("default", 0, folder, FALSE)

FolderInitPane ==
    \E n \in 0..MaxLen, area \in Areas :
        /\ folder' = Folder_init(folder, Some(1), Iota(n), area)
        /\ hist' = H("init", <<n, area>>, folder, FALSE)
        /\ UNCHANGED exceptFolder

FolderClear ==
    /\ folder' = Folder_clear(folder)
    /\ hist' = H("clear", 0, folder, FALSE)
    /\ UNCHANGED exceptFolder

FolderKey ==
    \E k \in FolderKeys :
        /\ folder' = Folder_handle_key_event(folder, k)
        /\ hist' = H("key", k, folder, FALSE)
        /\ UNCHANGED exceptFolder

\* a click hits a part of the scrollbar or misses it
FolderMouse ==
    \E kind \in MouseKinds, hit \in ScrollbarPositions \cup {"None"} :
        /\ kind # "DownLeft" => hit = "None"
        /\ folder' = Folder_handle_mouse_event(folder, kind, hit)
        /\ hist' = H("mouse", <<kind, hit>>, folder, FALSE)
        /\ UNCHANGED exceptFolder

FolderSetArea ==
    \E area \in Areas :
        /\ folder' = Folder_set_area(folder, area)
        /\ hist' = H("set_area", area, folder, FALSE)
        /\ UNCHANGED exceptFolder

FolderRender ==
    \E area \in Areas :
        /\ folder' = Folder_render(folder, area)
        /\ hist' = H("render", area, folder, FALSE)
        /\ UNCHANGED exceptFolder

FolderNextAct ==
    \/ FolderInitPane
    \/ FolderClear
    \/ FolderKey
    \/ FolderMouse
    \/ FolderSetArea
    \/ FolderRender

SpecFolder == FolderInit /\ [][FolderNextAct]_vars

--------------------------------------------------------------------------
(* SpecList: a StatefulList driven through its public operations *)

ListInit ==
    /\ \E n \in 0..MaxLen : sl = with_items(Iota(n))
    /\ FolderIdle
    /\ DirIdle
    /\ QueueIdle
    /\ AppIdle
    /\ TextIdle
    /\ PreviewIdle
    /\ hist = H("with_items", 0, sl, FALSE)

ListWithItems ==
    \E n \in 0..MaxLen :
        /\ sl' = with_items(Iota(n))
        /\ hist' = H("with_items", n, sl, FALSE)
        /\ UNCHANGED exceptList

ListFirst ==
    /\ sl' = first(sl).l
    /\ hist' = H("first", 0, sl, first(sl).ret)
    /\ UNCHANGED exceptList

ListLast ==
    /\ sl' = last(sl).l
    /\ hist' = H("last", 0, sl, last(sl).ret)
    /\ UNCHANGED exceptList

ListAdvance ==
    \E d \in 0..MaxDist :
        /\ sl' = advance(sl, d).l
        /\ hist' = H("advance", d, sl, advance(sl, d).ret)
        /\ UNCHANGED exceptList

ListRetreat ==
    \E d \in 0..MaxDist :
        /\ sl' = retreat(sl, d).l
        /\ hist' = H("retreat", d, sl, retreat(sl, d).ret)
        /\ UNCHANGED exceptList

ListNext ==
    /\ sl' = next(sl).l
    /\ hist' = H("next", 0, sl, next(sl).ret)
    /\ UNCHANGED exceptList

ListPrevious ==
    /\ sl' = previous(sl).l
    /\ hist' = H("previous", 0, sl, previous(sl).ret)
    /\ UNCHANGED exceptList

ListUnselect ==
    /\ sl' = unselect(sl)
    /\ hist' = H("unselect", 0, sl, FALSE)
    /\ UNCHANGED exceptList

\* callers select an index of the list, or index 0 when nothing is selected
ListSetSelected ==
    \E i \in 0..upper_bound(sl) :
        /\ sl' = set_selected(sl, Some(i))
        /\ hist' = H("set_selected", i, sl, FALSE)
        /\ UNCHANGED exceptList

ListSetOffset ==
    \E i \in 0..upper_bound(sl) :
        /\ sl' = set_offset(sl, i)
        /\ hist' = H("set_offset", i, sl, FALSE)
        /\ UNCHANGED exceptList

ListAdvanceOffset ==
    \E d \in 0..MaxDist :
        /\ sl' = advance_offset(sl, d)
        /\ hist' = H("advance_offset", d, sl, FALSE)
        /\ UNCHANGED exceptList

ListRetreatOffset ==
    \E d \in 0..MaxDist :
        /\ sl' = retreat_offset(sl, d)
        /\ hist' = H("retreat_offset", d, sl, FALSE)
        /\ UNCHANGED exceptList

ListNextAct ==
    \/ ListWithItems
    \/ ListFirst
    \/ ListLast
    \/ ListAdvance
    \/ ListRetreat
    \/ ListNext
    \/ ListPrevious
    \/ ListUnselect
    \/ ListSetSelected
    \/ ListSetOffset
    \/ ListAdvanceOffset
    \/ ListRetreatOffset

SpecList == ListInit /\ [][ListNextAct]_vars

--------------------------------------------------------------------------
(* SpecDir: the Directory pane driven through its public operations *)

DirKeys ==
    {Key("Up"), Key("Down"), Key("Home"), Key("End"), Key("PageUp"),
     Key("PageDown"), Key("Enter"), Key("Backspace"), Key("Left"),
     CharKey(97, "NONE"), CharKey(66, "SHIFT"), CharKey(122, "NONE"),
     CharKey(46, "NONE"), CharKey(112, "CONTROL"), CharKey(110, "CONTROL")}

\* the rows of an area: hit_test holds for them
Rows(area) == {row \in 0..(MaxDist + 3) : area.y <= row /\ row < area.y + area.height}

DirPre == [d |-> dir, cwd |-> proc_cwd]
DirRet(c) == [out |-> c.out, sig |-> c.sig]

\* a handler that panicked ended the process
DirAlive == hist.ret.out # "panic"

\* applies the outcome c of a handler
DirApply(op, arg, c) ==
    /\ dir' = c.d
    /\ proc_cwd' = c.cwd
    /\ hist' = H(op, arg, DirPre, DirRet(c))
    /\ UNCHANGED <<disk, exceptDir>>

DirInit ==
    /\ dir = Directory_default
    /\ disk \in FsKinds \cup {"walled"}
    /\ proc_cwd \in StartDirs(disk)
    /\ ListIdle
    /\ FolderIdle
    /\ QueueIdle
    /\ AppIdle
    /\ TextIdle
    /\ PreviewIdle
    /\ hist = H("default", 0, DirPre, DirRet(Ctx(dir, proc_cwd)))

DirLoadCwd ==
    /\ DirAlive
    /\ DirApply("load_cwd", 0, Directory_load_cwd(Ctx(dir, proc_cwd), disk))

DirKey ==
    /\ DirAlive
    /\ \E k \in DirKeys :
           DirApply("key", k, Directory_handle_key_event(Ctx(dir, proc_cwd), k, disk))

DirMouse ==
    /\ DirAlive
    /\ \E kind \in MouseKinds, row \in Rows(dir.area) :
           DirApply("mouse", <<kind, row>>,
                    Directory_handle_mouse_event(Ctx(dir, proc_cwd), kind, row, disk))

DirSetArea ==
    /\ DirAlive
    /\ \E area \in Areas :
           DirApply("set_area", area, Ctx(Directory_set_area(dir, area), proc_cwd))

DirSetFocus ==
    /\ DirAlive
    /\ \E focus \in BOOLEAN :
           DirApply("set_focus", focus, Ctx(Directory_set_focus(dir, focus), proc_cwd))

DirRender ==
    /\ DirAlive
    /\ \E area \in Areas :
           DirApply("render", area, Directory_render(Ctx(dir, proc_cwd), area))

DirNextAct ==
    \/ DirLoadCwd
    \/ DirKey
    \/ DirMouse
    \/ DirSetArea
    \/ DirSetFocus
    \/ DirRender

SpecDir == DirInit /\ [][DirNextAct]_vars

--------------------------------------------------------------------------
(* SpecLoop: the event loop of main.rs.  The Directory pane sends its       *)
(* signals on a clone of tui.event_tx, the channel tui.next() reads.        *)

\* tui::Event: Init, Key(key), Mouse(kind, row), SelectionChanged, ...
\* by: the type of the event whose handler sent it, "tui" for the terminal's
Ev(type, key, kind, row, by) ==
    [type |-> type, key |-> key, kind |-> kind, row |-> row, by |-> by]
KeyEv(k) == Ev("Key", k, "", 0, "tui")
MouseEv(kind, row) == Ev("Mouse", Key("Null"), kind, row, "tui")
PlainEv(type, by) == Ev(type, Key("Null"), "", 0, by)

LoopKeys == {Key("Down"), Key("Enter"), CharKey(97, "NONE")}
LoopRows == {1, 2}

\* what the terminal task sends: key presses and mouse clicks
InputEvents ==
    {KeyEv(k) : k \in LoopKeys} \cup {MouseEv("DownLeft", row) : row \in LoopRows}

IsInput(event) == event.type \in {"Key", "Mouse"}
IsSignal(event) == event.type \in {"SelectionChanged", "DirectoryChanged"}

\* the events a handler of an event of type `by` sent, as they are queued
Signals(sig, by) == [i \in 1..Len(sig) |-> PlainEv(sig[i], by)]

\* App::handle_event with the Directory pane focused
App_handle_event(c, event, fs) ==
    IF event.type = "Init" THEN Directory_load_cwd(c, fs)
    ELSE IF event.type = "Key" THEN Directory_handle_key_event(c, event.key, fs)
    ELSE IF event.type = "Mouse"
    THEN Directory_handle_mouse_event(c, event.kind, event.row, fs)
    ELSE c

LoopPre == [d |-> dir, cwd |-> proc_cwd, queue |-> queue]

LoopInit ==
    /\ dir = Directory_default
    /\ disk \in FsKinds
    /\ proc_cwd \in StartDirs(disk)
    /\ queue = <<PlainEv("Init", "tui")>>
    /\ AppIdle
    /\ ListIdle
    /\ FolderIdle
    /\ TextIdle
    /\ PreviewIdle
    /\ hist = H("default", PlainEv("Init", "tui"), LoopPre, DirRet(Ctx(dir, proc_cwd)))

\* the terminal task sends an input event
TuiSend ==
    /\ DirAlive
    /\ Len(queue) < MaxQueue
    /\ \E event \in InputEvents :
           /\ queue' = Append(queue, event)
           /\ hist' = H("send", event, LoopPre, DirRet(Ctx(dir, proc_cwd)))
    /\ UNCHANGED <<dir, proc_cwd, disk, exceptLoop>>

\* applies the outcome c of handling `event`: the signals it sent are queued
LoopApply(event, c) ==
    /\ dir' = c.d
    /\ proc_cwd' = c.cwd
    /\ queue' = Tail(queue) \o Signals(c.sig, event.type)
    /\ hist' = H("handle", event, LoopPre, DirRet(c))
    /\ UNCHANGED <<disk, exceptLoop>>

\* one iteration of the loop of run(): tui.next(), then app.handle_event
LoopStep ==
    /\ DirAlive
    /\ queue # <<>>
    /\ LoopApply(Head(queue), App_handle_event(Ctx(dir, proc_cwd), Head(queue), disk))

LoopNextAct ==
    \/ TuiSend
    \/ LoopStep

SpecLoop == LoopInit /\ [][LoopNextAct]_vars

--------------------------------------------------------------------------
(* SpecApp: the App of src/app.rs under the loop of main.rs.  Init is the   *)
(* first event the loop reads; the loop ends when should_quit is set.       *)

AppKeys ==
    {Key("Up"), Key("Down"), Key("Home"), Key("End"), Key("PageUp"),
     Key("PageDown"), Key("Enter"), Key("Left"), Key("Right"),
     Key("Esc"), Key("Tab"), ModKey("Home", "CONTROL"), ModKey("End", "CONTROL"),
     CharKey(97, "NONE"), CharKey(122, "NONE"), CharKey(99, "CONTROL")}

AppPre == [a |-> app, cwd |-> proc_cwd]

\* the loop runs: no panic, and should_quit was not set
AppAlive == hist.ret # "panic" /\ ~app.should_quit

\* applies the outcome c of a handler
AppApply(op, arg, c) ==
    /\ app' = c.a
    /\ proc_cwd' = c.cwd
    /\ hist' = H(op, arg, AppPre, c.out)
    /\ UNCHANGED <<disk, exceptApp>>

AppInit ==
    /\ app = App_default
    /\ dir = Directory_default
    /\ disk \in FsKinds
    /\ proc_cwd \in StartDirs(disk)
    /\ ListIdle
    /\ FolderIdle
    /\ QueueIdle
    /\ TextIdle
    /\ PreviewIdle
    /\ hist = H("default", 0, AppPre, "ok")

\* Event::Init
AppInitEvent ==
    /\ hist.op = "default"
    /\ AppApply("init", 0, App_handle_init_event(ACtx(app, proc_cwd), disk))

\* Event::Key
AppKey ==
    /\ AppAlive
    /\ hist.op # "default"
    /\ \E k \in AppKeys :
           AppApply("key", k, App_handle_key_event(ACtx(app, proc_cwd), k, disk))

\* Event::Resize
AppResize ==
    /\ AppAlive
    /\ hist.op # "default"
    /\ \E size \in Sizes :
           AppApply("resize", size,
                    ACtx(App_handle_resize_event(app, size), proc_cwd))

\* Event::Render: tui.draw(app.render); handle_event ignores the event
AppRender ==
    /\ AppAlive
    /\ hist.op # "default"
    /\ \E size \in Sizes :
           AppApply("render", size, App_render(ACtx(app, proc_cwd), size, disk))

\* Event::Mouse: handle_event has no arm for it, the event is dropped
AppMouse ==
    /\ AppAlive
    /\ hist.op # "default"
    /\ \E kind \in {"DownLeft", "ScrollDown"} :
           AppApply("mouse", kind, ACtx(app, proc_cwd))

AppNextAct ==
    \/ AppInitEvent
    \/ AppKey
    \/ AppResize
    \/ AppRender
    \/ AppMouse

SpecApp == AppInit /\ [][AppNextAct]_vars

--------------------------------------------------------------------------
(* SpecText: the Text pane driven through the operations of ListPane and    *)
(* PreviewPane.  Here hist records the operation and its argument only.     *)

\* the files previewed: empty, MaxLen - 1 narrow lines, and MaxLen lines of
\* which the first is one column wider than the pane
Texts ==
    {<<>>, [i \in 1..(MaxLen - 1) |-> 2], [i \in 1..MaxLen |-> IF i = 1 THEN 5 ELSE 1]}

\* areas with 0, 1 and MaxDist rows of 4 columns inside the margins
TextAreas == {Rect(1, 8, 2), Rect(1, 8, 3), Rect(1, 8, MaxDist + 2)}

TextKeys ==
    {Key("Up"), Key("Down"), Key("Home"), Key("End"), Key("PageUp"),
     Key("PageDown"), Key("Left"), Key("Right"),
     ModKey("Home", "CONTROL"), ModKey("End", "CONTROL"),
     ModKey("Left", "CONTROL"), ModKey("Right", "CONTROL"),
     CharKey(97, "NONE")}

\* a click hits at most one of the two scrollbars
TextClicks ==
    {<<"None", "None">>}
        \cup {<<p, "None">> : p \in ScrollbarPositions}
        \cup {<<"None", p>> : p \in ScrollbarPositions}

TextInit ==
    /\ text = Text_default
    /\ PreviewIdle
    /\ ListIdle
    /\ FolderIdle
    /\ DirIdle
    /\ QueueIdle
    /\ AppIdle
    /\ hist = H("default", 0, 0, FALSE)

TextInitPane ==
    \E lines \in Texts, area \in TextAreas :
        /\ text' = Text_init(text, Some(1), lines, area)
        /\ hist' = H("init", <<lines, area>>, 0, FALSE)
        /\ UNCHANGED exceptText

TextClear ==
    /\ text' = Text_clear(text)
    /\ hist' = H("clear", 0, 0, FALSE)
    /\ UNCHANGED exceptText

TextKey ==
    \E k \in TextKeys :
        /\ text' = Text_handle_key_event(text, k)
        /\ hist' = H("key", k, 0, FALSE)
        /\ UNCHANGED exceptText

TextMouse ==
    \E kind \in MouseKinds, hit \in TextClicks :
        /\ kind # "DownLeft" => hit = <<"None", "None">>
        /\ text' = Text_handle_mouse_event(text, kind, hit[1], hit[2])
        /\ hist' = H("mouse", <<kind, hit>>, 0, FALSE)
        /\ UNCHANGED exceptText

TextSetArea ==
    \E area \in TextAreas :
        /\ text' = Text_set_area(text, area)
        /\ hist' = H("set_area", area, 0, FALSE)
        /\ UNCHANGED exceptText

TextRender ==
    \E area \in TextAreas :
        /\ text' = Text_render(text, area)
        /\ hist' = H("render", area, 0, FALSE)
        /\ UNCHANGED exceptText

TextNextAct ==
    \/ TextInitPane
    \/ TextClear
    \/ TextKey
    \/ TextMouse
    \/ TextSetArea
    \/ TextRender

SpecText == TextInit /\ [][TextNextAct]_vars

--------------------------------------------------------------------------
(* SpecPanes: the Directory pane and the Preview component side by side,    *)
(* driven by the events of the loop of main.rs.                             *)

\* the layouts of a render pass: the Directory pane left of the Preview
PaneLayouts ==
    {<<Rect_new(0, 1, 8, h), Rect_new(8, 1, 8, h)>> : h \in {3, MaxDist + 2}}

PanesKeys == {Key("Tab"), Key("Down"), Key("Enter"), CharKey(122, "NONE")}

\* the columns and rows of the terminal a click can land on: row 0 is the
\* head line above both panes
PaneColumns == {1, 9}
PaneRows == 0..3

PanesPre == [d |-> dir, cwd |-> proc_cwd, p |-> preview, f |-> folder]
PanesNow == PCtx(dir, proc_cwd, preview, folder)

PanesAlive == hist.ret.out # "panic"

PanesApply(op, arg, pc) ==
    /\ dir' = pc.d
    /\ proc_cwd' = pc.cwd
    /\ preview' = pc.p
    /\ folder' = pc.f
    /\ hist' = H(op, arg, PanesPre, [out |-> pc.out, sig |-> pc.sig])
    /\ UNCHANGED <<disk, exceptPanes>>

PanesInit ==
    /\ dir = Directory_default
    /\ preview = Preview_default
    /\ folder = Folder_default
    /\ disk \in FsKinds
    /\ proc_cwd \in StartDirs(disk)
    /\ ListIdle
    /\ QueueIdle
    /\ AppIdle
    /\ TextIdle
    /\ hist = H("default", 0, PanesPre, [out |-> "ok", sig |-> <<>>])

PanesInitEvent ==
    /\ hist.op = "default"
    /\ \E pc \in {Panes_handle_init_event(PanesNow, disk)} :
           PanesApply("init", 0, pc)

PanesRender ==
    /\ PanesAlive
    /\ hist.op # "default"
    /\ \E areas \in PaneLayouts :
           \E pc \in {Panes_render(PanesNow, areas)} :
               PanesApply("render", areas, pc)

PanesSelectionChanged ==
    /\ PanesAlive
    /\ hist.op # "default"
    /\ \E pc \in {Panes_handle_selection_changed(PanesNow, disk)} :
           PanesApply("selection_changed", 0, pc)

PanesKey ==
    /\ PanesAlive
    /\ hist.op # "default"
    /\ \E k \in PanesKeys :
           \E pc \in {Panes_handle_key_event(PanesNow, k, disk)} :
               PanesApply("key", k, pc)

PanesMouse ==
    /\ PanesAlive
    /\ hist.op # "default"
    /\ \E kind \in {"DownLeft", "ScrollDown"}, x \in PaneColumns, y \in PaneRows,
          hit \in {"None", "End"} :
           /\ hit = "End" => (kind = "DownLeft" /\ x = 9 /\ y = 2)
           /\ \E pc \in {Panes_handle_mouse_event(PanesNow, kind, x, y, hit, disk)} :
                  PanesApply("mouse", [kind |-> kind, x |-> x, y |-> y, hit |-> hit], pc)

PanesNextAct ==
    \/ PanesInitEvent
    \/ PanesRender
    \/ PanesSelectionChanged
    \/ PanesKey
    \/ PanesMouse

SpecPanes == PanesInit /\ [][PanesNextAct]_vars

--------------------------------------------------------------------------
(* SpecPage: the four page_limit implementations applied to the same sizes *)

PageInit ==
    /\ ListIdle
    /\ FolderIdle
    /\ DirIdle
    /\ QueueIdle
    /\ AppIdle
    /\ TextIdle
    /\ PreviewIdle
    /\ hist = H("default", <<0, 0>>, 0, [app |-> 0, preview |-> 0, pane |-> 0, folder |-> 0])

PageLimit ==
    \E total_size \in 0..MaxSize, page_size \in 0..MaxSize :
        /\ hist' = H("page_limit", <<total_size, page_size>>, 0,
                     [app |-> page_limit(total_size, page_size),
                      preview |-> Preview_page_limit(total_size, page_size),
                      pane |-> PreviewPane_page_limit(total_size, page_size),
                      folder |-> Folder_page_limit(total_size, page_size)])
        /\ UNCHANGED exceptPage

PageNextAct == PageLimit

SpecPage == PageInit /\ [][PageNextAct]_vars

--------------------------------------------------------------------------
(* Claims *)

\* C10: from every interior selected index i (0 < i < len-1), next() followed
\* by previous() returns the selection to i; at the last index next() changes
\* nothing and returns false, and at the first index previous() changes
\* nothing and returns false.
C10_NextPreviousRoundTrip ==
    LET pre == hist.pre
        i == UnwrapOr(pre.selected, 0)
    IN  /\ (hist.op = "next" /\ IsSome(pre.selected) /\ 0 < i /\ i < len(pre) - 1)
           => /\ hist.ret
              /\ sl.selected = Some(i + 1)
              /\ previous(sl).ret
              /\ previous(sl).l.selected = Some(i)
              /\ previous(sl).l = pre
        /\ (hist.op = "next" /\ pre.selected = Some(upper_bound(pre)))
           => /\ sl = pre
              /\ hist.ret = FALSE
        /\ (hist.op = "previous" /\ pre.selected = Some(lower_bound(pre)))
           => /\ sl = pre
              /\ hist.ret = FALSE

\* next() has acted on an interior index and previous() leads back to it
C10_Witness ==
    /\ hist.op = "next"
    /\ len(hist.pre) >= 3
    /\ hist.pre.selected = Some(1)
    /\ sl.selected = Some(2)
    /\ previous(sl).l.selected = Some(1)

\* C3: in the Folder preview the list offset never exceeds
\* max(0, len - viewport height), after every key event, every list
\* replacement (init/clear) and every change of the pane area.
C3_FolderOffsetWithinPageLimit ==
    folder.entry_list.offset <= Folder_vertical_page_limit(folder)

\* C1: after every Directory-pane operation the selected index is either
\* None or within [0, len-1], and an empty list always has selected = None.
C1_DirSelectionInRange ==
    /\ IsSome(dir.items.selected) => Unwrap(dir.items.selected) < len(dir.items)
    /\ len(dir.items) = 0 => dir.items.selected = None

\* C2: with an empty directory list and no selection, the Down key changes
\* nothing: the selection remains None.
C2_DownOnEmptyListIsNoOp ==
    (/\ hist.op = "key"
     /\ is_down_key(hist.arg)
     /\ len(hist.pre.d.items) = 0
     /\ hist.pre.d.items.selected = None)
        => /\ dir.items.selected = None
           /\ dir = hist.pre.d

\* C8: events are handled in arrival order, and the signals one key press
\* emits are handled before the next input event: whenever the loop handles
\* a key or mouse event, no emitted signal is still waiting.
C8_SignalsBeforeNextInput ==
    (hist.op = "handle" /\ IsInput(hist.arg))
        => \A i \in 1..Len(hist.pre.queue) :
               ~(IsSignal(hist.pre.queue[i]) /\ hist.pre.queue[i].by = "Key")

\* what the claims call the preview state of the App
PreviewState(a) ==
    <<a.folder_item, a.file_folder_list, a.folder_scrollbar_state, a.file_text,
      a.widest_line_len, a.file_horizontal_scrollbar_state,
      a.file_vertical_scrollbar_state, a.file_horizontal_offset,
      a.file_vertical_offset, a.text_frame>>

\* the scroll state of the previews
ScrollState(a) ==
    <<a.file_folder_list.offset, a.file_folder_list.selected,
      a.folder_scrollbar_state, a.file_horizontal_scrollbar_state,
      a.file_vertical_scrollbar_state, a.file_horizontal_offset,
      a.file_vertical_offset>>

CtrlC == CharKey(99, "CONTROL")

\* C4: with a Metadata error pending, any key other than Ctrl+C leaves no
\* error pending and the Directory selection None, and the key is not
\* processed otherwise: focus, quit flag, directory items, working directory
\* and preview state are unchanged.
C4_MetadataErrorDismissal ==
    (hist.op = "key" /\ hist.pre.a.fs_error = Some("Metadata") /\ hist.arg # CtrlC)
        => /\ app.fs_error = None
           /\ app.directory_list.selected = None
           /\ app.directory_list.items = hist.pre.a.directory_list.items
           /\ app.focused_frame = hist.pre.a.focused_frame
           /\ app.should_quit = hist.pre.a.should_quit
           /\ app.cwd = hist.pre.a.cwd
           /\ proc_cwd = hist.pre.cwd
           /\ PreviewState(app) = PreviewState(hist.pre.a)
           /\ hist.ret = "ok"

C4_Witness ==
    /\ hist.op = "key"
    /\ hist.arg = Key("Tab")
    /\ hist.pre.a.fs_error = Some("Metadata")
    /\ IsSome(hist.pre.a.directory_list.selected)
    /\ app.fs_error = None
    /\ app.directory_list.selected = None
    /\ app.focused_frame = hist.pre.a.focused_frame

\* C5: with a directory (non-Metadata) error pending, any key other than
\* Ctrl+C clears the error and changes nothing else: selection, focus, quit
\* flag and preview state are as before.
C5_OtherErrorDismissal ==
    (hist.op = "key" /\ hist.pre.a.fs_error = Some("Other") /\ hist.arg # CtrlC)
        => /\ app = [hist.pre.a EXCEPT !.fs_error = None]
           /\ proc_cwd = hist.pre.cwd
           /\ hist.ret = "ok"

C5_Witness ==
    /\ hist.op = "key"
    /\ hist.arg = Key("Down")
    /\ hist.pre.a.fs_error = Some("Other")
    /\ IsSome(hist.pre.a.directory_list.selected)
    /\ ~is_last(hist.pre.a.directory_list)
    /\ app.fs_error = None
    /\ app.directory_list = hist.pre.a.directory_list

\* C6: Ctrl+C sets the quit flag in every state, an error pending or not,
\* whichever pane has focus, and changes nothing else.
C6_CtrlCQuits ==
    (hist.op = "key" /\ hist.arg = CtrlC)
        => /\ app = [hist.pre.a EXCEPT !.should_quit = TRUE]
           /\ proc_cwd = hist.pre.cwd
           /\ hist.ret = "ok"

C6_Witness ==
    /\ hist.op = "key"
    /\ hist.arg = CtrlC
    /\ IsSome(hist.pre.a.fs_error)
    /\ hist.pre.a.focused_frame = "Files"
    /\ app.should_quit
    /\ app.fs_error = hist.pre.a.fs_error

\* C7: exactly one pane has focus in every reachable state; Tab with no
\* error pending moves focus to the other pane, and a second Tab moves it back.
C7_FocusToggles ==
    /\ app.focused_frame \in {"Directory", "Files"}
    /\ (hist.op = "key" /\ hist.arg = Key("Tab") /\ hist.pre.a.fs_error = None)
           => /\ app.focused_frame \in {"Directory", "Files"} \ {hist.pre.a.focused_frame}
              /\ App_handle_key_event(ACtx(app, proc_cwd), Key("Tab"), disk).a
                     = hist.pre.a

C7_Witness ==
    /\ hist.op = "key"
    /\ hist.arg = Key("Tab")
    /\ hist.pre.a.fs_error = None
    /\ hist.pre.a.focused_frame = "Files"
    /\ app.focused_frame = "Directory"

\* C9: with the preview focused and no error pending, no key other than Tab,
\* Esc and Ctrl+C changes the Directory list, selection or focus; with the
\* Directory focused, a key that changes neither the selection nor the
\* directory leaves all preview scroll state unchanged.
C9_PanesDoNotInterfere ==
    /\ (/\ hist.op = "key"
        /\ hist.pre.a.focused_frame = "Files"
        /\ hist.pre.a.fs_error = None
        /\ hist.arg \notin {Key("Tab"), Key("Esc"), CtrlC})
           => /\ app.directory_list = hist.pre.a.directory_list
              /\ app.focused_frame = hist.pre.a.focused_frame
              /\ proc_cwd = hist.pre.cwd
    /\ (/\ hist.op = "key"
        /\ hist.pre.a.focused_frame = "Directory"
        /\ app.directory_list = hist.pre.a.directory_list
        /\ proc_cwd = hist.pre.cwd)
           => ScrollState(app) = ScrollState(hist.pre.a)

\* C11: for every non-empty list, selected index i and page distance d >= 1,
\* advance(d) (PageDown) sets the selection to min(i + d, len - 1) and
\* retreat(d) (PageUp) sets it to max(i - d, 0).
C11_PageMovesByDistanceClamped ==
    LET pre == hist.pre
        i == UnwrapOr(pre.selected, 0)
        d == hist.arg
    IN  /\ (hist.op = "advance" /\ d >= 1 /\ len(pre) > 0 /\ IsSome(pre.selected))
           => sl.selected = Some(IF i + d < len(pre) - 1 THEN i + d ELSE len(pre) - 1)
        /\ (hist.op = "retreat" /\ d >= 1 /\ len(pre) > 0 /\ IsSome(pre.selected))
           => sl.selected = Some(IF i > d THEN i - d ELSE 0)

\* advance(2) has acted on the first index of a list of four and selected
\* index 2, short of the last index
C11_Witness ==
    /\ hist.op = "advance"
    /\ hist.arg = 2
    /\ len(hist.pre) = 4
    /\ hist.pre.selected = Some(0)
    /\ sl.selected = Some(2)

\* C12: for every list length and viewport height, End then PageUp then End
\* yields the same index as End alone: the same offset in the Folder preview,
\* and the same selection in a Directory pane that holds the same list in the
\* same area.
C12_EndPageUpEndIsEnd ==
    LET FKey(f, code) == Folder_handle_key_event(f, Key(code))
        fEnd == FKey(folder, "End")
        d == [Directory_default EXCEPT !.items = folder.entry_list,
                                       !.area = folder.area]
        DKey(c, code) == Directory_handle_key_event(c, Key(code), disk)
        dEnd == DKey(Ctx(d, proc_cwd), "End")
    IN  /\ FKey(FKey(fEnd, "PageUp"), "End").entry_list.offset
               = fEnd.entry_list.offset
        /\ DKey(DKey(dEnd, "PageUp"), "End").d.items.selected
               = dEnd.d.items.selected

\* C13: a character key in the Directory pane selects the first entry after
\* the current selection whose name's first character equals the typed
\* character ignoring ASCII case; if there is none after the selection, the
\* first such entry from index 0; if no entry matches, the selection is
\* unchanged.
C13_CharKeySelectsNextMatch ==
    LET pre == hist.pre.d.items
        ch == hist.arg.ch
        matches == {i \in 0..(len(pre) - 1) :
                        to_ascii_lowercase(entry_name(pre.items[i + 1])[1])
                            = to_ascii_lowercase(ch)}
        after == {i \in matches : IsSome(pre.selected) /\ i > Unwrap(pre.selected)}
        Least(S) == CHOOSE i \in S : \A j \in S : i <= j
    IN  (hist.op = "key" /\ hist.arg.code = "Char"
         /\ ~is_up_key(hist.arg) /\ ~is_down_key(hist.arg))
            => /\ hist.ret.out = "ok"
               /\ dir.items.selected =
                      IF after # {} THEN Some(Least(after))
                      ELSE IF matches # {} THEN Some(Least(matches))
                      ELSE pre.selected

\* C14: in every reachable state a preview scrollbar is hidden (its
\* content_length is 0) exactly when the content extent (the row count, or
\* the widest line for the horizontal bar) is <= the viewport extent.
C14_ScrollbarHiddenIffContentFits ==
    /\ (folder.scrollbar_state.content_length = 0)
           <=> (len(folder.entry_list) <= folder.inner_area.height)
    /\ (text.vertical_scrollbar_state.content_length = 0)
           <=> (Len(text.file_text) <= text.inner_area.height)
    /\ (text.horizontal_scrollbar_state.content_length = 0)
           <=> (widest_line_length(text.file_text) <= text.inner_area.width)

\* C15: when the scrollbar geometry is recomputed for a list with
\* len > viewport length, the result has content_length = len,
\* viewport length = the viewport extent and position = the list's offset.
C15_ScrollbarGeometry ==
    (/\ hist.op \in {"init", "clear", "set_area", "render"}
     /\ len(folder.entry_list) > folder.inner_area.height)
        => /\ folder.scrollbar_state.content_length = len(folder.entry_list)
           /\ folder.scrollbar_state.viewport_content_length
                  = folder.inner_area.height
           /\ folder.scrollbar_state.position = folder.entry_list.offset

\* C16: recomputing the scrollbar state is idempotent, and it changes nothing
\* but the scrollbar fields: the list's items, selection and offset are the
\* same before and after.  (set_area stores the area and recomputes; init and
\* clear end with the recomputation.)
C16_RecomputeIdempotentNoSideEffect ==
    /\ hist.op \in {"init", "clear", "set_area"}
           => Folder_set_scrollbar_state(folder) = folder
    /\ hist.op = "set_area" => folder.entry_list = hist.pre.entry_list

\* C17: in the Directory pane with a non-empty list and no selection, a Down
\* key leaves index 0 selected and does nothing else; any other navigation
\* key first selects index 0 and is then processed as if index 0 had been
\* selected beforehand: End gives len - 1, PageDown gives min(d, len - 1),
\* Up, Home and PageUp give 0.  The same holds for the Directory component
\* given the same list.
C17_NoSelectionSelectsFirst ==
    LET pre == hist.pre.a
        n == len(pre.directory_list)
        d == pre.text_frame.height
        k == hist.arg
        sel == app.directory_list.selected
        \* a Directory pane that holds the same list, handling the same key
        pane == Directory_handle_key_event(
                    Ctx([Directory_default EXCEPT !.items = pre.directory_list,
                                                  !.area = pre.text_frame],
                        hist.pre.cwd),
                    k, disk)
    IN  (/\ hist.op = "key"
         /\ k # CtrlC
         /\ pre.fs_error = None
         /\ pre.focused_frame = "Directory"
         /\ n > 0
         /\ pre.directory_list.selected = None)
            => /\ is_down_key(k)
                      => /\ sel = Some(0)
                         /\ app.directory_list.items = pre.directory_list.items
                         /\ app.directory_list.offset = pre.directory_list.offset
                         /\ proc_cwd = hist.pre.cwd
                         /\ app.focused_frame = "Directory"
               /\ k.code = "End" => sel = Some(n - 1)
               /\ k.code = "PageDown" => sel = Some(IF d < n - 1 THEN d ELSE n - 1)
               /\ (is_up_key(k) \/ k.code \in {"Home", "PageUp"}) => sel = Some(0)
               /\ (is_up_key(k) \/ is_down_key(k)
                      \/ k.code \in {"Home", "End", "PageUp", "PageDown"})
                      => /\ pane.d.items.selected = sel
                         /\ pane.d.items.items = pre.directory_list.items
                         /\ pane.cwd = hist.pre.cwd
                         /\ pane.out = "ok"
                         /\ is_down_key(k) => pane.sig = <<>>

\* End has acted on a list of three with nothing selected and selected the
\* last entry
C17_Witness ==
    /\ hist.op = "key"
    /\ hist.arg = Key("End")
    /\ hist.pre.a.fs_error = None
    /\ hist.pre.a.focused_frame = "Directory"
    /\ len(hist.pre.a.directory_list) = 3
    /\ hist.pre.a.directory_list.selected = None
    /\ app.directory_list.selected = Some(2)

\* C18: Enter on a selected directory entry whose directory change succeeds
\* (the working directory can be changed to it and it can be listed) replaces the Directory list with the new directory's entries and selects
\* the previously open directory when it appears in the new list, otherwise
\* the first entry.  Enter on a non-directory entry changes neither the list
\* nor the selection and emits no signal.
C18_EnterOpensDirectory ==
    LET pre == hist.pre.d.items
        item == pre.items[Unwrap(pre.selected) + 1]
        new == Normalize(item)
        listing == (IF Len(new) > 0 THEN <<Append(new, PARENT_DIRECTORY)>> ELSE <<>>)
                       \o read_directory(disk, new).entries
        old == {i \in 1..Len(listing) : listing[i] = hist.pre.cwd}
    IN  (/\ hist.op = "key"
         /\ hist.arg = Key("Enter")
         /\ IsSome(pre.selected)
         /\ Unwrap(pre.selected) < len(pre))
            => /\ (is_dir(disk, item) /\ set_current_dir(disk, item).ok
                      /\ read_directory(disk, new).ok)
                      => /\ proc_cwd = new
                         /\ dir.items.items = listing
                         /\ dir.items.selected =
                                IF old # {}
                                THEN Some((CHOOSE i \in old : \A j \in old : i <= j) - 1)
                                ELSE Some(0)
               /\ ~is_dir(disk, item)
                      => /\ dir.items = pre
                         /\ hist.ret.sig = <<>>

\* Enter on ".." has acted in /a/c: the list is that of /a and the entry of
\* /a/c, the directory that was open, is selected
C18_Witness ==
    /\ hist.op = "key"
    /\ hist.arg = Key("Enter")
    /\ hist.pre.cwd = <<N_a, N_c>>
    /\ hist.pre.d.items.selected = Some(0)
    /\ proc_cwd = <<N_a>>
    /\ len(dir.items) = 3
    /\ dir.items.selected = Some(1)
    /\ dir.items.items[2] = <<N_a, N_c>>

\* C19: Backspace in the Directory pane: if the list's first entry is the
\* synthetic parent entry, the final state equals that of selecting index 0
\* and pressing Enter; if the list has no parent entry, Backspace changes
\* neither the list nor the selection and emits no signal.
C19_BackspaceOpensParent ==
    LET pre == hist.pre.d
        enter == Directory_handle_key_event(
                     Ctx(Directory_set_selected(pre, 0), hist.pre.cwd),
                     Key("Enter"), disk)
    IN  (hist.op = "key" /\ hist.arg = Key("Backspace"))
            => IF len(pre.items) > 0
                  /\ entry_name(pre.items.items[1]) = PARENT_DIRECTORY
               THEN /\ dir = enter.d
                    /\ proc_cwd = enter.cwd
                    /\ hist.ret = DirRet(enter)
               ELSE /\ dir.items = pre.items
                    /\ hist.ret.sig = <<>>
                    /\ hist.ret.out = "ok"

\* C20: mouse events in a pane have the same effect on state as the
\* equivalent key event: ScrollUp equals an Up key, ScrollDown a Down key, a
\* left click on the already-selected Directory row an Enter key; a left
\* click on an unselected Directory row selects that row, emits a
\* selection-changed signal and does not change directory.  For the Folder
\* pane the two scroll events are compared on a pane that holds the
\* Directory's list and area.
C20_MouseEqualsKey ==
    LET pre == hist.pre.d
        kind == hist.arg[1]
        row == hist.arg[2]
        KeyOutcome(code) ==
            Directory_handle_key_event(Ctx(pre, hist.pre.cwd), Key(code), disk)
        SameAs(c) == dir = c.d /\ proc_cwd = c.cwd /\ hist.ret = DirRet(c)
        index == (row - pre.area.y) + pre.items.offset - 1
        onItem == 0 <= index /\ index < len(pre.items)
        f == [Folder_default EXCEPT !.entry_list = pre.items,
                                    !.area = pre.area,
                                    !.inner_area = Rect_inner(pre.area, 1, 2)]
    IN  hist.op = "mouse"
            => /\ kind = "ScrollUp" => SameAs(KeyOutcome("Up"))
               /\ kind = "ScrollDown" => SameAs(KeyOutcome("Down"))
               /\ (kind = "DownLeft" /\ onItem /\ pre.items.selected = Some(index))
                      => SameAs(KeyOutcome("Enter"))
               /\ (kind = "DownLeft" /\ onItem /\ pre.items.selected # Some(index))
                      => /\ dir.items.selected = Some(index)
                         /\ dir.items.items = pre.items.items
                         /\ hist.ret.sig = <<"SelectionChanged">>
                         /\ proc_cwd = hist.pre.cwd
               /\ Folder_handle_mouse_event(f, "ScrollUp", "None")
                      = Folder_handle_key_event(f, Key("Up"))
               /\ Folder_handle_mouse_event(f, "ScrollDown", "None")
                      = Folder_handle_key_event(f, Key("Down"))

\* a left click has acted on the unselected second row of a list whose
\* first entry was selected
C20_Witness ==
    /\ hist.op = "mouse"
    /\ hist.arg[1] = "DownLeft"
    /\ hist.pre.d.items.selected = Some(0)
    /\ hist.arg[2] = hist.pre.d.area.y + 2
    /\ dir.items.selected = Some(1)
    /\ hist.ret.sig = <<"SelectionChanged">>
    /\ proc_cwd = hist.pre.cwd

PreviewVariants ==
    {None, Some("Folder"), Some("TextFile"), Some("OversizeTextFile"),
     Some("BinaryFile"), Some("Error")}

\* the variant the classifier's outcome for the selected entry calls for
ClassifiedVariant(a, fs) ==
    IF ~IsSome(a.directory_list.selected) THEN None
    ELSE LET entry == a.directory_list.items[Unwrap(a.directory_list.selected) + 1]
             type == entry_type(fs, entry)
         IN  IF type = "Directory"
             THEN IF read_directory(fs, Normalize(entry)).ok
                  THEN Some("Folder") ELSE Some("Error")
             ELSE IF type = "Text"
             THEN IF file_size(fs, entry) >= OVERSIZE THEN Some("OversizeTextFile")
                  ELSE IF read_file_ok(fs, entry) THEN Some("TextFile")
                  ELSE Some("Error")
             ELSE IF type = "Binary" THEN Some("BinaryFile")
             ELSE Some("Error")

C23_InertVariantsIgnoreKeys ==
    LET pre == hist.pre.a
    IN  (/\ hist.op = "key"
         /\ pre.focused_frame = "Files"
         /\ pre.fs_error = None
         /\ hist.arg # CtrlC
         /\ hist.arg.code \notin {"Esc", "Tab"}
         /\ pre.folder_item \notin {Some("Folder"), Some("TextFile")})
        => /\ app = pre
           /\ proc_cwd = hist.pre.cwd
           /\ hist.ret = "ok"

\* Down pressed on the preview of a binary file while the lines of a text
\* file read earlier are still held and taller than the frame
C23_Witness ==
    /\ hist.op = "key"
    /\ hist.arg = Key("Down")
    /\ hist.pre.a.focused_frame = "Files"
    /\ hist.pre.a.fs_error = None
    /\ hist.pre.a.folder_item = Some("BinaryFile")
    /\ Len(hist.pre.a.file_text) > hist.pre.a.text_frame.height
    /\ hist.pre.a.text_frame.height > 0

\* C24: in the Text variant Ctrl+Home and Ctrl+End set the vertical offset to
\* 0 and to the vertical page limit and never change the horizontal offset;
\* plain Home and End set the horizontal offset to 0 and to the horizontal
\* page limit and never change the vertical offset; Left and Right move the
\* horizontal offset by one column within [0, limit].  Stated for the text
\* preview of the App, from offsets that are within their limits.
C24_TextKeysMoveOneAxis ==
    LET pre == hist.pre.a
        k == hist.arg
        vertical_limit == App_file_vertical_page_limit(pre)
        horizontal_limit == App_file_horizontal_page_limit(pre)
    IN  (/\ hist.op = "key"
         /\ pre.focused_frame = "Files"
         /\ pre.fs_error = None
         /\ pre.folder_item = Some("TextFile")
         /\ pre.file_vertical_offset <= vertical_limit
         /\ pre.file_horizontal_offset <= horizontal_limit)
        => /\ k = ModKey("Home", "CONTROL")
                  => /\ app.file_vertical_offset = 0
                     /\ app.file_horizontal_offset = pre.file_horizontal_offset
           /\ k = ModKey("End", "CONTROL")
                  => /\ app.file_vertical_offset = vertical_limit
                     /\ app.file_horizontal_offset = pre.file_horizontal_offset
           /\ k = Key("Home")
                  => /\ app.file_horizontal_offset = 0
                     /\ app.file_vertical_offset = pre.file_vertical_offset
           /\ k = Key("End")
                  => /\ app.file_horizontal_offset = horizontal_limit
                     /\ app.file_vertical_offset = pre.file_vertical_offset
           /\ k = Key("Left")
                  => app.file_horizontal_offset = SatSub(pre.file_horizontal_offset, 1)
           /\ k = Key("Right")
                  => app.file_horizontal_offset =
                         Min(horizontal_limit, pre.file_horizontal_offset + 1)

\* C25: after the Text pane is given new file lines (init), its vertical and
\* horizontal offsets and the positions of both scrollbar states are 0,
\* whatever they were before.
C25_NewContentResetsScroll ==
    hist.op = "init"
        => /\ text.vertical_offset = 0
           /\ text.horizontal_offset = 0
           /\ text.vertical_scrollbar_state.position = 0
           /\ text.horizontal_scrollbar_state.position = 0

\* C26: for all total sizes and page sizes, each of the four page_limit
\* implementations returns max(0, total - page_size): they agree on every
\* input and none returns an underflowed difference.
C26_PageLimitsAgree ==
    LET total_size == hist.arg[1]
        page_size == hist.arg[2]
        expected == IF total_size - page_size > 0 THEN total_size - page_size ELSE 0
    IN  hist.op = "page_limit"
            => /\ hist.ret.app = expected
               /\ hist.ret.preview = expected
               /\ hist.ret.pane = expected
               /\ hist.ret.folder = expected

\* a page larger than the total: the subtraction would underflow
C26_Witness ==
    /\ hist.op = "page_limit"
    /\ hist.arg[1] > 0
    /\ hist.arg[1] < hist.arg[2]
    /\ hist.ret.app = 0
    /\ hist.ret.pane = 0

\* C27: no operation of the Directory pane fails, on an empty list either: key
\* events, mouse clicks on a row of the pane, set_area, set_focus and the
\* listing of the working directory end without a panic (an index or slice
\* out of range, an integer underflow).
C27_DirectoryNeverPanics ==
    hist.ret.out # "panic"

\* C28: a scroll key of the Folder preview (Up, Down, Home, End, PageUp,
\* PageDown, Ctrl+P, Ctrl+N) changes at most the offset of the entry list:
\* its selected index and its items stay as they were.
C28_FolderScrollKeepsSelection ==
    hist.op = "key"
        => /\ folder.entry_list.selected = hist.pre.entry_list.selected
           /\ folder.entry_list.items = hist.pre.entry_list.items

\* C29: a key event of the Directory pane whose handling leaves the selected
\* index and the list as they were sends no SelectionChanged signal.
C29_SignalOnlyOnChange ==
    (/\ hist.op = "key"
     /\ hist.ret.out = "ok"
     /\ dir.items = hist.pre.d.items)
        => \A i \in 1..Len(hist.ret.sig) : hist.ret.sig[i] # "SelectionChanged"

\* C30: a mouse Down or scroll event that arrives while an error is pending
\* clears the error, as a key event does, and changes nothing else but the
\* selection a Metadata error drops.
C30_MouseClearsError ==
    (hist.op = "mouse" /\ IsSome(hist.pre.a.fs_error))
        => /\ app.fs_error = None
           /\ PreviewState(app) = PreviewState(hist.pre.a)
           /\ app.focused_frame = hist.pre.a.focused_frame

\* C31: in the Text pane the vertical offset never exceeds the page limit of
\* the line count and the viewport height, and the horizontal offset never
\* exceeds the page limit of the widest line and the viewport width, after
\* every operation (key, init, clear, set_area, render).
C31_TextOffsetsWithinPageLimit ==
    /\ text.vertical_offset <= Text_vertical_page_limit(text)
    /\ text.horizontal_offset <= Text_horizontal_page_limit(text)

\* C32: a key event of the Folder pane that starts with the scrollbar
\* position equal to the list offset ends with the scrollbar position equal
\* to the list offset (so any sequence of keys after init keeps them equal).
C32_FolderScrollbarFollowsOffset ==
    (/\ hist.op = "key"
     /\ hist.pre.scrollbar_state.position = hist.pre.entry_list.offset)
        => folder.scrollbar_state.position = folder.entry_list.offset

\* C33: after every key event and every change of the area of the Text pane
\* the vertical scrollbar position equals vertical_offset and the horizontal
\* scrollbar position equals horizontal_offset.
C33_TextScrollbarsFollowOffsets ==
    hist.op \in {"key", "set_area"}
        => /\ text.vertical_scrollbar_state.position = text.vertical_offset
           /\ text.horizontal_scrollbar_state.position = text.horizontal_offset

\* C34: a key event of the Directory pane that leaves the selected index
\* different from what it was before (the change from no selection to index
\* 0 included) sends a SelectionChanged signal.
C34_SelectionChangeIsSignalled ==
    (/\ hist.op = "key"
     /\ hist.ret.out # "panic"
     /\ dir.items.selected # hist.pre.d.items.selected)
        => \E i \in 1..Len(hist.ret.sig) : hist.ret.sig[i] = "SelectionChanged"

\* C35: when the directory change asked for by Enter or Backspace fails (the
\* handler returns the error of changing or of listing the directory), the
\* Directory list's items and selected index are what they were before the
\* key and no SelectionChanged signal is sent.
C35_FailedChangeLeavesListAlone ==
    (/\ hist.op = "key"
     /\ hist.arg.code \in {"Enter", "Backspace"}
     /\ hist.ret.out = "err")
        => /\ dir.items.items = hist.pre.d.items.items
           /\ dir.items.selected = hist.pre.d.items.selected
           /\ \A i \in 1..Len(hist.ret.sig) : hist.ret.sig[i] # "SelectionChanged"

\* C36: a key press of the Directory pane that changes the directory sends
\* DirectoryChanged first and SelectionChanged second and nothing else, and
\* when the list of the new directory holds the directory that was open
\* before, that entry is the selected one when the handler ends, i.e. when
\* the consumer gets the SelectionChanged signal.
C36_DirectoryChangedThenSelection ==
    (/\ hist.op = "key"
     /\ hist.ret.out = "ok"
     /\ \E i \in 1..Len(hist.ret.sig) : hist.ret.sig[i] = "DirectoryChanged")
        => /\ hist.ret.sig = <<"DirectoryChanged", "SelectionChanged">>
           /\ IsSome(index_of(dir.items, hist.pre.cwd))
                  => dir.items.selected = index_of(dir.items, hist.pre.cwd)

\* Backspace in /a/c: the list of /a is loaded and /a/c, its second entry,
\* is selected
C36_Witness ==
    /\ hist.op = "key"
    /\ hist.arg.code = "Backspace"
    /\ hist.ret.sig = <<"DirectoryChanged", "SelectionChanged">>
    /\ hist.pre.cwd = <<N_a, N_c>>
    /\ proc_cwd = <<N_a>>
    /\ dir.items.selected = Some(1)
    /\ dir.items.items[2] = <<N_a, N_c>>

\* C37: in the Folder pane, from a list offset k below the page limit a Down
\* key followed at once by an Up key brings the offset back to k, and an Up
\* key at an offset k > 0 leaves the offset at k - 1.
C37_FolderDownUpRoundTrip ==
    /\ folder.entry_list.offset < Folder_vertical_page_limit(folder)
           => Folder_handle_key_event(
                  Folder_handle_key_event(folder, Key("Down")),
                  Key("Up")).entry_list.offset = folder.entry_list.offset
    /\ (/\ hist.op = "key"
        /\ hist.arg = Key("Up")
        /\ hist.pre.entry_list.offset > 0)
           => folder.entry_list.offset = hist.pre.entry_list.offset - 1

\* C38: a left click in the Directory pane on the row k lines below the top
\* border selects (or, when it is already selected, opens) the item of index
\* offset + k - 1 when that row is inside the borders and the index is below
\* the length of the list; a click on the top border row, on the bottom
\* border row or on a row below the last item changes nothing and sends no
\* signal.
C38_ClickMapsRowToItem ==
    (/\ hist.op = "mouse"
     /\ hist.arg[1] = "DownLeft"
     /\ hist.ret.out # "panic")
        => LET d == hist.pre.d
               k == hist.arg[2] - d.area.y
               index == d.items.offset + k - 1
           IN  IF k >= 1 /\ k < d.area.height - 1 /\ index < len(d.items)
               THEN \/ d.items.selected = Some(index)
                    \/ /\ dir.items.selected = Some(index)
                       /\ dir.items.items = d.items.items
               ELSE /\ dir = d
                    /\ proc_cwd = hist.pre.cwd
                    /\ hist.ret.sig = <<>>

\* C39: the quit flag is set only by the key Ctrl+C (in any state) or by Esc
\* with no error pending (whichever pane has focus), and Esc with no error
\* pending does set it; no other event sets it; and no event is handled
\* once it is set (every handled event started with the flag false), so it
\* never returns to false.
C39_QuitOnlyByCtrlCOrEsc ==
    /\ ~hist.pre.a.should_quit
    /\ app.should_quit
           => /\ hist.op = "key"
              /\ \/ hist.arg = CtrlC
                 \/ hist.arg = Key("Esc") /\ hist.pre.a.fs_error = None
    /\ (hist.op = "key" /\ hist.arg = Key("Esc") /\ hist.pre.a.fs_error = None)
           => app.should_quit

\* Esc with no error pending and the focus on the preview pane has set the flag
C39_Witness ==
    /\ hist.op = "key"
    /\ hist.arg = Key("Esc")
    /\ hist.pre.a.fs_error = None
    /\ hist.pre.a.focused_frame = "Files"
    /\ ~hist.pre.a.should_quit
    /\ app.should_quit

\* C40: once a key press has dismissed a Metadata error, render passes that
\* follow with no input event in between raise no error: the first two
\* passes after the dismissal leave no error pending, and every render pass
\* that starts with no error pending and nothing selected in a list that
\* holds entries (the state a dismissal leaves) ends that way.
C40_NoErrorAfterDismissal ==
    /\ (hist.op = "key" /\ hist.pre.a.fs_error = Some("Metadata") /\ hist.arg # CtrlC)
           => \A s1 \in Sizes, s2 \in Sizes :
                  LET r1 == App_render(ACtx(app, proc_cwd), s1, disk)
                      r2 == App_render(r1, s2, disk)
                  IN  /\ r1.out = "ok" /\ r1.a.fs_error = None
                      /\ r2.out = "ok" /\ r2.a.fs_error = None
    /\ (/\ hist.op = "render"
        /\ hist.pre.a.fs_error = None
        /\ hist.pre.a.directory_list.selected = None
        /\ len(hist.pre.a.directory_list) > 0)
           => /\ hist.ret = "ok"
              /\ app.fs_error = None
              /\ app.directory_list.selected = None

\* a render pass after the dismissal: the list still holds the entry whose
\* metadata cannot be read, nothing is selected and no error is raised
C40_Witness ==
    /\ hist.op = "render"
    /\ hist.pre.a.fs_error = None
    /\ hist.pre.a.directory_list.selected = None
    /\ \E i \in 1..len(app.directory_list) :
           ~metadata_ok(disk, app.directory_list.items[i])
    /\ app.fs_error = None
    /\ app.directory_list.selected = None

====
